---- MODULE Spec2Model ----
(***************************************************************************)
(* Polymarket-Kalshi arbitrage bot: the decision engine.                   *)
(*                                                                         *)
(*   ArbitrageDetector  (core/arbitrage)   detectOpportunity,              *)
(*                                         determineAction,                *)
(*                                         validateOpportunity             *)
(*   Trader             (core/trader)      executeArbitrage,               *)
(*                                         calculateTradeAmount            *)
(*   Redeemer           (core/redeemer.ts) checkAndRedeem, redeemPosition, *)
(*                                         startAutoRedeem                 *)
(*   ArbitrageBot       (index.ts)         scanLoop, scanAndTrade          *)
(*                                                                         *)
(* Prices are on the 0..100 scale of the source.  An optional number       *)
(* (bettedPrice?: number) is a set with at most one element: {} stands for *)
(* undefined.  A value that the source returns as `T | null` is either a   *)
(* record of T or Null.                                                    *)
(***************************************************************************)
EXTENDS Integers, Sequences, FiniteSets, Bags, TLC

VARIABLES
    \* ---- ArbitrageDetector, exercised on its own ----
    PROFIT_THRESHOLD,   \* ArbitrageDetector.PROFIT_THRESHOLD
    marketData,         \* the MarketData handed to detectOpportunity
    stage,              \* "input", "detected" or "validated"
    detected,           \* what detectOpportunity returned, once stage is "detected"
    current,            \* the fresh quotes handed to validateOpportunity
    validated,          \* what validateOpportunity returned, once stage is "validated"
    \* ---- ArbitrageBot ----
    env,                \* process.env: the configuration the bot reads
    positions,          \* ArbitrageBot.positions, the ledger
    scanPc,             \* scanLoop: "sleep" (between ticks), "matching" (awaiting
                        \* matchMarkets), "orders" (awaiting allSettled) or
                        \* "returned" (executeArbitrage resolved)
    matched,            \* scanAndTrade: the matched markets from the current one on
    opportunity,        \* scanAndTrade: the Opportunity being executed, or Null
    tradeAmount,        \* scanAndTrade: the amount handed to executeArbitrage
    polyResult,         \* executeArbitrage: state of polymarket.buyToken's promise
    kalshiResult,       \* executeArbitrage: state of kalshi.buyToken's promise
    executionResult,    \* scanAndTrade: what executeArbitrage resolved to
    polls,              \* Redeemer: the checkAndRedeem calls in flight (a bag)
    redemption,         \* Redeemer: the calls and results of the last
                        \* redeemPosition that completed, or Null
    \* ---- the venues and the build ----
    liveQuotes,         \* the venues' quotes now, one entry per market of `matched`
    venuesSettled,      \* from now on both venues report every market resolved
                        \* and carry out every redemption
    polymarketBuild,    \* which PolymarketClient source the program is built from
    \* ---- what the venues were asked and what they were handed ----
    listings,           \* MarketMatcher: what the venues' listing and price calls
                        \* of the current run give, or Null
    matchResult,        \* MarketMatcher: what the last matchMarkets resolved to,
                        \* or Null
    submitted,          \* the venue adapters: a buyToken call, its maxPrice and,
                        \* once made, the limit price of its order; or Null
    resolution,         \* Redeemer: the answers of the last pair of
                        \* isMarketResolved calls that completed, or Null
    orders              \* Trader: the two buyToken calls of the last
                        \* executeArbitrage that placed orders, as the venues
                        \* saw them, or Null

detectorVars == <<PROFIT_THRESHOLD, marketData, stage, detected, current, validated>>

scanVars == <<scanPc, matched, opportunity, tradeAmount, polyResult, kalshiResult,
              executionResult>>

venueVars == <<liveQuotes, venuesSettled, polymarketBuild>>

recordVars == <<listings, matchResult, submitted, resolution, orders>>

botVars == <<env, positions, scanVars, polls, redemption, venueVars, recordVars>>

vars == <<detectorVars, botVars>>

Null == [isNull |-> TRUE]

Min(a, b) == IF a < b THEN a ELSE b
Max(a, b) == IF a > b THEN a ELSE b
Abs(a) == IF a < 0 THEN -a ELSE a

(***************************************************************************)
(* Optional numbers.                                                       *)
(***************************************************************************)
Undefined == {}
Defined(opt) == opt # Undefined
ValueOf(opt) == CHOOSE v \in opt : TRUE

(***************************************************************************)
(* Input domains of the detector.                                          *)
(***************************************************************************)
PriceLevels == {40, 45, 48, 63}
BettedLevels == {38, 42}
ThresholdLevels == {90, 100}
PriceMoves == {-2, -1, 0, 1, 2}

OptionalBetted == {Undefined} \cup {{b} : b \in BettedLevels}

\* interface MarketPrice { upPrice, downPrice, bettedPrice? }
MarketPrice == [upPrice : PriceLevels, downPrice : PriceLevels,
                bettedPrice : OptionalBetted]

MarketIds == {"m1", "m2"}

(***************************************************************************)
(* ArbitrageDetector.determineAction, branch by branch.                    *)
(***************************************************************************)
bothBetted(poly, kalshi) ==
    Defined(poly.bettedPrice) /\ Defined(kalshi.bettedPrice)

\* Mutant: the comparison of the two costs is inverted.
cheaperAction_Inverted(poly, kalshi) ==
    LET cost1 == poly.upPrice + kalshi.downPrice
        cost2 == poly.downPrice + kalshi.upPrice
    IN  IF cost1 > cost2 THEN "buy_poly_up_kalshi_down"
                         ELSE "buy_poly_down_kalshi_up"

\* "choose the more profitable option"
cheaperAction(poly, kalshi) ==
    LET cost1 == poly.upPrice + kalshi.downPrice
        cost2 == poly.downPrice + kalshi.upPrice
    IN  IF cost1 < cost2 THEN "buy_poly_up_kalshi_down"
                         ELSE "buy_poly_down_kalshi_up"

\* Mutant: the betted prices are not consulted when both combinations match.
bothCase_IgnoresBetted(poly, kalshi) == cheaperAction(poly, kalshi)

\* Case 1: both opportunities exist
bothCase(poly, kalshi) ==
    IF bothBetted(poly, kalshi)
    THEN IF ValueOf(kalshi.bettedPrice) > ValueOf(poly.bettedPrice)
         THEN "buy_poly_up_kalshi_down"
         ELSE IF ValueOf(kalshi.bettedPrice) < ValueOf(poly.bettedPrice)
              THEN "buy_poly_down_kalshi_up"
              ELSE cheaperAction(poly, kalshi)
    ELSE cheaperAction(poly, kalshi)

\* Mutant: equal betted prices are accepted.
onlyUpDownCase_NonStrict(poly, kalshi) ==
    IF bothBetted(poly, kalshi)
    THEN IF ValueOf(poly.bettedPrice) <= ValueOf(kalshi.bettedPrice)
         THEN "buy_poly_up_kalshi_down"
         ELSE "skip"
    ELSE "skip"

\* Case 2: only poly_up + kalshi_down is below the threshold
onlyUpDownCase(poly, kalshi) ==
    IF bothBetted(poly, kalshi)
    THEN IF ValueOf(poly.bettedPrice) < ValueOf(kalshi.bettedPrice)
         THEN "buy_poly_up_kalshi_down"
         ELSE "skip"
    ELSE "skip"

\* Mutant: without betted prices the eligible combination is bought.
onlyDownUpCase_TradesWithoutBetted(poly, kalshi) ==
    IF bothBetted(poly, kalshi)
    THEN IF ValueOf(poly.bettedPrice) > ValueOf(kalshi.bettedPrice)
         THEN "buy_poly_down_kalshi_up"
         ELSE "skip"
    ELSE "buy_poly_down_kalshi_up"

\* Case 3: only poly_down + kalshi_up is below the threshold
onlyDownUpCase(poly, kalshi) ==
    IF bothBetted(poly, kalshi)
    THEN IF ValueOf(poly.bettedPrice) > ValueOf(kalshi.bettedPrice)
         THEN "buy_poly_down_kalshi_up"
         ELSE "skip"
    ELSE "skip"

determineAction(hasBoth, hasPolyUpKalshiDown, hasPolyDownKalshiUp, poly, kalshi) ==
    IF hasBoth THEN bothCase(poly, kalshi)
    ELSE IF hasPolyUpKalshiDown THEN onlyUpDownCase(poly, kalshi)
    ELSE IF hasPolyDownKalshiUp THEN onlyDownUpCase(poly, kalshi)
    ELSE "skip"

(***************************************************************************)
(* The totalCost that detectOpportunity reports.                           *)
(***************************************************************************)
\* Mutant: the cost of poly up + kalshi down is reported whichever combination
\* is eligible.
totalCostOf_AlwaysUpDown(hasBoth, hasPolyUpKalshiDown, polyUpKalshiDown, polyDownKalshiUp) ==
    IF hasBoth THEN Min(polyUpKalshiDown, polyDownKalshiUp)
    ELSE polyUpKalshiDown

totalCostOf(hasBoth, hasPolyUpKalshiDown, polyUpKalshiDown, polyDownKalshiUp) ==
    IF hasBoth THEN Min(polyUpKalshiDown, polyDownKalshiUp)
    ELSE IF hasPolyUpKalshiDown THEN polyUpKalshiDown
    ELSE polyDownKalshiUp

(***************************************************************************)
(* The opportunityType that detectOpportunity reports.                     *)
(***************************************************************************)
\* Mutant: the type names poly up + kalshi down whenever that combination is
\* eligible, the other one being eligible or not.
opportunityTypeOf_UpDownFirst(hasBoth, hasPolyUpKalshiDown) ==
    IF hasPolyUpKalshiDown THEN "poly_up_kalshi_down"
    ELSE "poly_down_kalshi_up"

opportunityTypeOf(hasBoth, hasPolyUpKalshiDown) ==
    IF hasBoth THEN "both"
    ELSE IF hasPolyUpKalshiDown THEN "poly_up_kalshi_down"
    ELSE "poly_down_kalshi_up"

(***************************************************************************)
(* Eligibility of a combination: its cost is strictly below the threshold. *)
(***************************************************************************)
\* Mutant: a cost equal to the threshold counts as eligible.
belowThreshold_Inclusive(cost, threshold) == cost <= threshold

belowThreshold(cost, threshold) == cost < threshold

(***************************************************************************)
(* ArbitrageDetector.detectOpportunity.  profitPotential is the fraction   *)
(* profitNum / profitDen = ((100 - totalCost) / totalCost) * 100.          *)
(***************************************************************************)
\* Mutant: the ratio is taken the other way round.
profitPotential_Inverted(totalCost) ==
    [num |-> totalCost * 100, den |-> 100 - totalCost]

\* "const profitPotential = ((100 - totalCost) / totalCost) * 100"
profitPotential(totalCost) ==
    [num |-> (100 - totalCost) * 100, den |-> totalCost]

detectOpportunity(md, threshold) ==
    LET polymarket == md.polymarket
        kalshi == md.kalshi
        polyUpKalshiDown == polymarket.upPrice + kalshi.downPrice
        polyDownKalshiUp == polymarket.downPrice + kalshi.upPrice
        hasPolyUpKalshiDown == belowThreshold(polyUpKalshiDown, threshold)
        hasPolyDownKalshiUp == belowThreshold(polyDownKalshiUp, threshold)
        hasBothOpportunities == hasPolyUpKalshiDown /\ hasPolyDownKalshiUp
        action == determineAction(hasBothOpportunities, hasPolyUpKalshiDown,
                                  hasPolyDownKalshiUp, polymarket, kalshi)
        totalCost == totalCostOf(hasBothOpportunities, hasPolyUpKalshiDown,
                                 polyUpKalshiDown, polyDownKalshiUp)
    IN  IF ~hasPolyUpKalshiDown /\ ~hasPolyDownKalshiUp THEN Null
        ELSE IF action = "skip" THEN Null
        ELSE [ marketId |-> md.marketId,
               opportunityType |-> opportunityTypeOf(hasBothOpportunities,
                                                     hasPolyUpKalshiDown),
               polyUpPrice |-> polymarket.upPrice,
               polyDownPrice |-> polymarket.downPrice,
               kalshiUpPrice |-> kalshi.upPrice,
               kalshiDownPrice |-> kalshi.downPrice,
               totalCost |-> totalCost,
               profitNum |-> profitPotential(totalCost).num,
               profitDen |-> profitPotential(totalCost).den,
               polyBettedPrice |-> polymarket.bettedPrice,
               kalshiBettedPrice |-> kalshi.bettedPrice,
               action |-> action ]

(***************************************************************************)
(* ArbitrageDetector.validateOpportunity                                   *)
(***************************************************************************)
priceChangeThreshold == 2

\* Mutant: a move of exactly the threshold is accepted.
withinThreshold_Inclusive(diff) == diff <= priceChangeThreshold

withinThreshold(diff) == diff < priceChangeThreshold

validateOpportunity(opp, currentPoly, currentKalshi) ==
    LET polyUpDiff == Abs(currentPoly.upPrice - opp.polyUpPrice)
        polyDownDiff == Abs(currentPoly.downPrice - opp.polyDownPrice)
        kalshiUpDiff == Abs(currentKalshi.upPrice - opp.kalshiUpPrice)
        kalshiDownDiff == Abs(currentKalshi.downPrice - opp.kalshiDownPrice)
    IN  /\ withinThreshold(polyUpDiff)
        /\ withinThreshold(polyDownDiff)
        /\ withinThreshold(kalshiUpDiff)
        /\ withinThreshold(kalshiDownDiff)

(***************************************************************************)
(* The detector on its own: a threshold and a MarketData are drawn, then   *)
(* detectOpportunity is applied, then validateOpportunity is applied to    *)
(* the Opportunity and fresh quotes.                                       *)
(***************************************************************************)
DetectorInit ==
    /\ PROFIT_THRESHOLD \in ThresholdLevels
    /\ marketData \in [marketId : {"m1"}, polymarket : MarketPrice, kalshi : MarketPrice]
    /\ stage = "input"
    /\ detected = Null
    /\ current = Null
    /\ validated = FALSE
    /\ env = Null
    /\ positions = << >>
    /\ scanPc = "sleep"
    /\ matched = << >>
    /\ opportunity = Null
    /\ tradeAmount = 0
    /\ polyResult = "none"
    /\ kalshiResult = "none"
    /\ executionResult = Null
    /\ polls = EmptyBag
    /\ redemption = Null
    /\ listings = Null
    /\ matchResult = Null
    /\ submitted = Null
    /\ resolution = Null
    /\ orders = Null
    /\ liveQuotes = << >>
    /\ venuesSettled = FALSE
    /\ polymarketBuild = "src/clients"

Detect ==
    /\ stage = "input"
    /\ detected' = detectOpportunity(marketData, PROFIT_THRESHOLD)
    /\ stage' = "detected"
    /\ UNCHANGED <<PROFIT_THRESHOLD, marketData, current, validated, botVars>>

Validate ==
    /\ stage = "detected"
    /\ detected # Null
    /\ \E dpu \in PriceMoves, dpd \in PriceMoves, dku \in PriceMoves, dkd \in PriceMoves :
          LET currentPoly == [upPrice |-> detected.polyUpPrice + dpu,
                              downPrice |-> detected.polyDownPrice + dpd]
              currentKalshi == [upPrice |-> detected.kalshiUpPrice + dku,
                                downPrice |-> detected.kalshiDownPrice + dkd]
          IN  /\ current' = [polymarket |-> currentPoly, kalshi |-> currentKalshi]
              /\ validated' = validateOpportunity(detected, currentPoly, currentKalshi)
    /\ stage' = "validated"
    /\ UNCHANGED <<PROFIT_THRESHOLD, marketData, detected, botVars>>

DetectorNext == Detect \/ Validate

DetectorSpec == DetectorInit /\ [][DetectorNext]_vars

(***************************************************************************)
(* The detector on the quotes the adapters return: each venue's raw        *)
(* answer is drawn, getMarketPrices turns it into a MarketPrice, and       *)
(* detectOpportunity is applied to the pair.                               *)
(***************************************************************************)
\* the "price" of an order-book entry, a decimal string in the 0-1 range;
\* "" stands for a missing price
PriceStrings == {"", "0", "0.4", "0.45", "1"}

\* "parseFloat(s) * 100" for the strings above
parseFloatTimes100(s) ==
    CASE s = "0" -> 0
      [] s = "0.38" -> 38
      [] s = "0.4" -> 40
      [] s = "0.45" -> 45
      [] s = "0.5" -> 50
      [] s = "1" -> 100

\* "x || fallback" on a string: the empty string is falsy, "0" is not
stringOr(s, fallback) == IF s = "" THEN fallback ELSE s

\* Mutant: the quote is taken as it is.
numberOr_Raw(x, fallback) == x

\* "x || fallback" on a number: 0 is falsy
numberOr(x, fallback) == IF x = 0 THEN fallback ELSE x

\* the order book Polymarket returns: the asks kept by each filter, and the
\* bettedPrice field
OrderBooks ==
    [ yesAsks : {<< >>} \cup {<<s>> : s \in PriceStrings},
      noAsks : {<< >>} \cup {<<s>> : s \in {"", "0", "0.45"}},
      bettedPrice : {"", "0.38"} ]

\* PolymarketClient.getMarketPrices
polymarketGetMarketPrices(orderBook) ==
    [ upPrice |-> IF Len(orderBook.yesAsks) > 0
                  THEN parseFloatTimes100(stringOr(orderBook.yesAsks[1], "0.5"))
                  ELSE 50,
      downPrice |-> IF Len(orderBook.noAsks) > 0
                    THEN parseFloatTimes100(stringOr(orderBook.noAsks[1], "0.5"))
                    ELSE 50,
      bettedPrice |-> IF orderBook.bettedPrice # ""
                      THEN {parseFloatTimes100(orderBook.bettedPrice)}
                      ELSE Undefined ]

\* the market Kalshi returns, in cents; 0 stands for a side with no quote
KalshiQuotedMarkets ==
    [ yes_ask : {0, 1, 45}, yes_bid : {0, 44},
      no_ask : {0, 1, 48}, no_bid : {0, 47},
      betted_price : {0, 42} ]

\* KalshiClient.getMarketPrices
kalshiGetMarketPrices(market) ==
    [ upPrice |-> numberOr(market.yes_ask, numberOr(market.yes_bid, 50)),
      downPrice |-> numberOr(market.no_ask, numberOr(market.no_bid, 50)),
      bettedPrice |-> IF market.betted_price # 0 THEN {market.betted_price}
                      ELSE Undefined ]

QuotedInit ==
    /\ PROFIT_THRESHOLD \in ThresholdLevels
    /\ marketData \in { [ marketId |-> "m1",
                          polymarket |-> polymarketGetMarketPrices(orderBook),
                          kalshi |-> kalshiGetMarketPrices(market) ] :
                        orderBook \in OrderBooks, market \in KalshiQuotedMarkets }
    /\ stage = "input"
    /\ detected = Null
    /\ current = Null
    /\ validated = FALSE
    /\ env = Null
    /\ positions = << >>
    /\ scanPc = "sleep"
    /\ matched = << >>
    /\ opportunity = Null
    /\ tradeAmount = 0
    /\ polyResult = "none"
    /\ kalshiResult = "none"
    /\ executionResult = Null
    /\ polls = EmptyBag
    /\ redemption = Null
    /\ listings = Null
    /\ matchResult = Null
    /\ submitted = Null
    /\ resolution = Null
    /\ orders = Null
    /\ liveQuotes = << >>
    /\ venuesSettled = FALSE
    /\ polymarketBuild = "src/clients"

QuotedSpec == QuotedInit /\ [][DetectorNext]_vars

(***************************************************************************)
(* Bounds of the bot model.                                                *)
(***************************************************************************)
MaxPositions == 3   \* ledger entries
MaxMatched == 2     \* matched markets in one tick
MaxPolls == 2       \* checkAndRedeem calls in flight at once

(***************************************************************************)
(* process.env.  The defaults are those of the source; TRADE_PERCENTAGE is *)
(* in hundredths (0.1 is 10).                                              *)
(***************************************************************************)
DefaultTakeProfit == 90
DefaultMinTradeAmount == 10
DefaultMaxTradeAmount == 1000
DefaultTradePercentage == 10
DefaultAvailableBalance == 1000

DefaultEnv ==
    [ TAKE_PROFIT |-> DefaultTakeProfit,
      MIN_TRADE_AMOUNT |-> DefaultMinTradeAmount,
      MAX_TRADE_AMOUNT |-> DefaultMaxTradeAmount,
      TRADE_PERCENTAGE |-> DefaultTradePercentage,
      AVAILABLE_BALANCE |-> DefaultAvailableBalance ]

EnvLevels ==
    { DefaultEnv,
      [DefaultEnv EXCEPT !.MIN_TRADE_AMOUNT = 200, !.MAX_TRADE_AMOUNT = 100] }

(***************************************************************************)
(* What matchMarkets can resolve to: up to MaxMatched MarketData, one per  *)
(* Polymarket market of the listing, each with the quotes of that tick.    *)
(***************************************************************************)
BotQuotes ==
    { [ polymarket |-> [upPrice |-> 48, downPrice |-> 48, bettedPrice |-> {}],
        kalshi |-> [upPrice |-> 48, downPrice |-> 48, bettedPrice |-> {}] ],
      [ polymarket |-> [upPrice |-> 40, downPrice |-> 63, bettedPrice |-> {38}],
        kalshi |-> [upPrice |-> 45, downPrice |-> 48, bettedPrice |-> {42}] ],
      [ polymarket |-> [upPrice |-> 63, downPrice |-> 40, bettedPrice |-> {42}],
        kalshi |-> [upPrice |-> 48, downPrice |-> 45, bettedPrice |-> {38}] ] }

\* Market m1 is quoted cheaper on its Polymarket up side, market m2 on its
\* Polymarket down side, when they are not quoted evenly.
MarketDataLevels ==
    { md \in { [ marketId |-> m, isResolved |-> r,
                 polymarket |-> q.polymarket, kalshi |-> q.kalshi ] :
               m \in MarketIds, r \in BOOLEAN, q \in BotQuotes } :
        md.polymarket.upPrice # md.polymarket.downPrice =>
            ((md.marketId = "m1") = (md.polymarket.upPrice < md.polymarket.downPrice)) }

MatchResults ==
    UNION { { ms \in [1..n -> MarketDataLevels] :
                \A i \in 1..n : \A j \in 1..n :
                    i < j => ms[i].marketId # ms[j].marketId } :
            n \in 0..MaxMatched }

(***************************************************************************)
(* Trader                                                                  *)
(***************************************************************************)
\* Mutant: the lower clamp is left out.
calculateTradeAmount_NoFloor(opp, availableBalance) ==
    LET calculatedAmount == (availableBalance * env.TRADE_PERCENTAGE) \div 100
    IN  Min(calculatedAmount, env.MAX_TRADE_AMOUNT)

\* Trader.calculateTradeAmount
calculateTradeAmount(opp, availableBalance) ==
    LET calculatedAmount == (availableBalance * env.TRADE_PERCENTAGE) \div 100
    IN  Min(Max(calculatedAmount, env.MIN_TRADE_AMOUNT), env.MAX_TRADE_AMOUNT)

\* Mutant: only the lower limit is checked.
amountAllowed_NoUpperLimit(amount) ==
    ~(amount < env.MIN_TRADE_AMOUNT)

\* executeArbitrage: "Validate trade amount"
amountAllowed(amount) ==
    ~(amount < env.MIN_TRADE_AMOUNT \/ amount > env.MAX_TRADE_AMOUNT)

\* executeArbitrage: the actions for which orders are submitted
submitsOrders(opp) ==
    opp.action \in {"buy_poly_up_kalshi_down", "buy_poly_down_kalshi_up"}

\* Mutant: Promise.all, which settles as soon as one leg rejects.
allSettled_FailFast(polyRes, kalshiRes) ==
    \/ polyRes = "rejected"
    \/ kalshiRes = "rejected"
    \/ (polyRes = "fulfilled" /\ kalshiRes = "fulfilled")

\* executeArbitrage: Promise.allSettled over the two buyToken calls resolves
\* once neither is pending
allSettled(polyRes, kalshiRes) ==
    polyRes # "pending" /\ kalshiRes # "pending"

\* Mutant: one filled leg is enough.
bothTradesSucceeded_Either(polyRes, kalshiRes) ==
    polyRes = "fulfilled" \/ kalshiRes = "fulfilled"

\* executeArbitrage: "Check if both trades succeeded"; polyTrade and
\* kalshiTrade are set only from a fulfilled result.
bothTradesSucceeded(polyRes, kalshiRes) ==
    polyRes = "fulfilled" /\ kalshiRes = "fulfilled"

\* Mutant: the Kalshi leg is booked on the outcome of the Polymarket leg.
newPosition_SameOutcome(opp, amount) ==
    [ marketId |-> opp.marketId,
      polyUp |-> IF opp.action = "buy_poly_up_kalshi_down" THEN amount ELSE 0,
      polyDown |-> IF opp.action = "buy_poly_down_kalshi_up" THEN amount ELSE 0,
      kalshiUp |-> IF opp.action = "buy_poly_up_kalshi_down" THEN amount ELSE 0,
      kalshiDown |-> IF opp.action = "buy_poly_down_kalshi_up" THEN amount ELSE 0,
      totalCost |-> opp.totalCost * amount,
      expectedProfitNum |-> opp.profitNum * amount,
      expectedProfitDen |-> opp.profitDen * 100,
      status |-> "active" ]

\* executeArbitrage: "Create position record".  totalCost is kept as
\* opportunity.totalCost * amount, a hundred times the source's value;
\* expectedProfit as the fraction expectedProfitNum / expectedProfitDen.
newPosition(opp, amount) ==
    [ marketId |-> opp.marketId,
      polyUp |-> IF opp.action = "buy_poly_up_kalshi_down" THEN amount ELSE 0,
      polyDown |-> IF opp.action = "buy_poly_down_kalshi_up" THEN amount ELSE 0,
      kalshiUp |-> IF opp.action = "buy_poly_down_kalshi_up" THEN amount ELSE 0,
      kalshiDown |-> IF opp.action = "buy_poly_up_kalshi_down" THEN amount ELSE 0,
      totalCost |-> opp.totalCost * amount,
      expectedProfitNum |-> opp.profitNum * amount,
      expectedProfitDen |-> opp.profitDen * 100,
      status |-> "active" ]

\* Trader.executeArbitrage, once Promise.allSettled has resolved
executeArbitrage(opp, amount, polyRes, kalshiRes) ==
    IF ~bothTradesSucceeded(polyRes, kalshiRes) THEN Null
    ELSE newPosition(opp, amount)

\* Trader.executeArbitrage is called: an amount outside the band makes it
\* resolve to null at once, with no order placed; otherwise both buyToken
\* calls are issued and Promise.allSettled is awaited.
ExecuteStarts(opp, amount) ==
    /\ opportunity' = opp
    /\ tradeAmount' = amount
    /\ IF amountAllowed(amount) /\ submitsOrders(opp)
       THEN /\ scanPc' = "orders"
            /\ polyResult' = "pending"
            /\ kalshiResult' = "pending"
       ELSE /\ scanPc' = "returned"
            /\ polyResult' = "none"
            /\ kalshiResult' = "none"

(***************************************************************************)
(* ArbitrageBot.scanAndTrade                                               *)
(***************************************************************************)
\* this.positions.find(p => p.marketId === marketId): the first match, or Null
findPosition(ps, marketId) ==
    IF \E i \in 1..Len(ps) : ps[i].marketId = marketId
    THEN ps[CHOOSE i \in 1..Len(ps) :
                /\ ps[i].marketId = marketId
                /\ \A j \in 1..(i - 1) : ps[j].marketId # marketId]
    ELSE Null

\* "Check if we already have a position in this market"
alreadyActive(ps, marketId) ==
    LET existingPosition == findPosition(ps, marketId)
    IN  existingPosition # Null /\ existingPosition.status = "active"

\* Mutant: the loop does not skip resolved markets.
reachesExecute_ResolvedToo(market, ps) ==
    LET opp == detectOpportunity(market, PROFIT_THRESHOLD)
    IN  /\ opp # Null
        /\ ~alreadyActive(ps, opp.marketId)

\* One iteration of the loop over the matched markets reaches the call of
\* executeArbitrage: the market is not resolved, an Opportunity is detected
\* and no active position is found.
reachesExecute(market, ps) ==
    LET opp == detectOpportunity(market, PROFIT_THRESHOLD)
    IN  /\ ~market.isResolved
        /\ opp # Null
        /\ ~alreadyActive(ps, opp.marketId)

\* The loop runs without awaiting up to the first market for which
\* executeArbitrage is called; what is returned starts with that market.
RECURSIVE skipToExecute(_, _)
skipToExecute(ms, ps) ==
    IF ms = << >> THEN << >>
    ELSE IF reachesExecute(Head(ms), ps) THEN ms
    ELSE skipToExecute(Tail(ms), ps)

\* The quotes matchMarkets stored in a MarketData, as the venues gave them
fetchedQuotes(market) ==
    [ polymarket |-> [upPrice |-> market.polymarket.upPrice,
                      downPrice |-> market.polymarket.downPrice],
      kalshi |-> [upPrice |-> market.kalshi.upPrice,
                  downPrice |-> market.kalshi.downPrice] ]

suffix(s, n) == SubSeq(s, Len(s) - n + 1, Len(s))

\* The scan variables after the loop has moved on over `ms` with ledger `ps`;
\* `live` are the venues' quotes for the markets of `ms`.
ScanContinues(ms, ps, live) ==
    LET rest == skipToExecute(ms, ps)
    IN  /\ matched' = rest
        /\ liveQuotes' = suffix(live, Len(rest))
        /\ IF rest = << >>
           THEN /\ scanPc' = "sleep"
                /\ opportunity' = Null
                /\ tradeAmount' = 0
                /\ polyResult' = "none"
                /\ kalshiResult' = "none"
           ELSE LET opp == detectOpportunity(Head(rest), PROFIT_THRESHOLD)
                IN  ExecuteStarts(opp, calculateTradeAmount(opp, env.AVAILABLE_BALANCE))

\* Mutant: a timer starts the tick, whatever the previous one is doing.
tickMayStart_Timer(pc) == TRUE

\* scanLoop: "while (this.isRunning) { await this.scanAndTrade(); await
\* this.sleep(...) }": scanAndTrade is called again only when the previous
\* call and the sleep after it have resolved
tickMayStart(pc) == pc = "sleep"

\* scanLoop starts a tick: scanAndTrade calls matchMarkets and awaits it
ScanTick ==
    /\ tickMayStart(scanPc)
    /\ scanPc' = "matching"
    /\ UNCHANGED <<detectorVars, env, positions, polls, matched, opportunity,
                   tradeAmount, polyResult, kalshiResult, executionResult,
                   redemption, recordVars, venueVars>>

\* matchMarkets resolves to `ms`; the loop runs up to the first call of
\* executeArbitrage
MatchReturns ==
    /\ scanPc = "matching"
    /\ \E ms \in MatchResults :
          /\ Len(positions) + Len(ms) <= MaxPositions
          /\ ScanContinues(ms, positions, [i \in 1..Len(ms) |-> fetchedQuotes(ms[i])])
    /\ executionResult' = Null
    /\ UNCHANGED <<detectorVars, env, positions, polls, redemption, recordVars,
                   venuesSettled, polymarketBuild>>

\* polymarket.buyToken settles
PolySettles ==
    /\ scanPc = "orders"
    /\ polyResult = "pending"
    /\ polyResult' \in {"fulfilled", "rejected"}
    /\ UNCHANGED <<detectorVars, env, positions, polls, scanPc, matched, opportunity,
                   tradeAmount, kalshiResult, executionResult, redemption, recordVars, venueVars>>

\* kalshi.buyToken settles
KalshiSettles ==
    /\ scanPc = "orders"
    /\ kalshiResult = "pending"
    /\ kalshiResult' \in {"fulfilled", "rejected"}
    /\ UNCHANGED <<detectorVars, env, positions, polls, scanPc, matched, opportunity,
                   tradeAmount, polyResult, executionResult, redemption, recordVars, venueVars>>

\* Promise.allSettled resolves and executeArbitrage returns
ExecuteReturns ==
    /\ scanPc = "orders"
    /\ allSettled(polyResult, kalshiResult)
    /\ executionResult' = executeArbitrage(opportunity, tradeAmount,
                                           polyResult, kalshiResult)
    /\ scanPc' = "returned"
    /\ UNCHANGED <<detectorVars, env, positions, polls, matched, opportunity,
                   tradeAmount, polyResult, kalshiResult, redemption, recordVars, venueVars>>

\* Mutant: the new position is put in front of the ledger.
pushPosition_Unshift(ps, position) ==
    IF position # Null THEN <<position>> \o ps ELSE ps

\* "if (position) this.positions.push(position)"
pushPosition(ps, position) ==
    IF position # Null THEN Append(ps, position) ELSE ps

\* scanAndTrade resumes after executeArbitrage, then the loop goes on with the
\* next market
ScanResumes ==
    /\ scanPc = "returned"
    /\ LET ps == pushPosition(positions, executionResult)
       IN  /\ positions' = ps
           /\ ScanContinues(Tail(matched), ps, Tail(liveQuotes))
    /\ executionResult' = Null
    /\ UNCHANGED <<detectorVars, env, polls, redemption, recordVars, venuesSettled, polymarketBuild>>

(***************************************************************************)
(* The venues.  Their quotes move while a tick awaits its orders; QuoteMoves *)
(* are the moves (polymarket up, polymarket down, kalshi up, kalshi down)  *)
(* away from the quotes matchMarkets fetched.                              *)
(***************************************************************************)
QuoteMoves == { <<0, 0, 0, 0>>, <<1, 0, 0, 0>>, <<0, 0, 0, -2>> }

movedQuotes(quotes, mv) ==
    [ polymarket |-> [upPrice |-> quotes.polymarket.upPrice + mv[1],
                      downPrice |-> quotes.polymarket.downPrice + mv[2]],
      kalshi |-> [upPrice |-> quotes.kalshi.upPrice + mv[3],
                  downPrice |-> quotes.kalshi.downPrice + mv[4]] ]

\* what getMarketPrices would return now changes for a matched market
VenueQuotesMove ==
    /\ \E i \in 1..Len(liveQuotes) : \E mv \in QuoteMoves :
          /\ liveQuotes[i] # movedQuotes(fetchedQuotes(matched[i]), mv)
          /\ liveQuotes' = [liveQuotes EXCEPT
                               ![i] = movedQuotes(fetchedQuotes(matched[i]), mv)]
    /\ UNCHANGED <<detectorVars, env, positions, scanVars, polls, redemption, recordVars,
                   venuesSettled, polymarketBuild>>

\* from now on both venues report every market resolved and redeem on request
VenuesSettle ==
    /\ ~venuesSettled
    /\ venuesSettled' = TRUE
    /\ UNCHANGED <<detectorVars, env, positions, scanVars, polls, redemption, recordVars,
                   liveQuotes, polymarketBuild>>

\* what a venue can answer to the market query of isMarketResolved: the
\* market is resolved, it is not (or there is no such market), or the query
\* fails
ResolutionAnswers ==
    IF venuesSettled THEN {"resolved"} ELSE {"resolved", "open", "error"}

\* Mutant: a failed query counts as resolved.
isMarketResolved_FailClosed(answer) == answer \in {"resolved", "error"}

\* KalshiClient.isMarketResolved and PolymarketClient.isMarketResolved:
\* "return market.status === 'resolved'", false when there is no market and
\* "catch (error) { ...; return false; }"
isMarketResolved(answer) == answer = "resolved"

\* how a venue can take a redemption request: it carries it out ("ok"),
\* has nothing to redeem or no such market ("refused"), or the call fails
RedemptionOutcomes == IF venuesSettled THEN {"ok"} ELSE {"ok", "refused", "error"}

\* PolymarketClient.redeemTokens.  The client of src/clients asks the CLOB
\* client and answers `result !== null`, and false on any error; the client
\* of src/src/clients is a placeholder that answers false.
polymarketRedeemTokens(build, outcome) ==
    IF build = "src/src/clients" THEN "false"
    ELSE IF outcome = "ok" THEN "true" ELSE "false"

\* KalshiClient.redeemTokens: true when the market is resolved, false
\* otherwise and on any error
kalshiRedeemTokens(outcome) ==
    IF outcome = "ok" THEN "true" ELSE "false"

(***************************************************************************)
(* Redeemer.  A poll is one call of checkAndRedeem that is awaiting a      *)
(* venue: `pc` says which await, `index` is the place in the ledger of the *)
(* position it is handling.  The polls in flight are a bag: the calls      *)
(* started by the interval timer have no identity.                         *)
(***************************************************************************)
\* Mutant: the loop starts one position too far.
nextActive_SkipsOne(ps, from) ==
    IF \E i \in (from + 1)..Len(ps) : ps[i].status = "active"
    THEN CHOOSE i \in (from + 1)..Len(ps) :
            /\ ps[i].status = "active"
            /\ \A j \in (from + 1)..(i - 1) : ps[j].status # "active"
    ELSE 0

\* checkAndRedeem: the loop skips the positions that are not active
nextActive(ps, from) ==
    IF \E i \in from..Len(ps) : ps[i].status = "active"
    THEN CHOOSE i \in from..Len(ps) :
            /\ ps[i].status = "active"
            /\ \A j \in from..(i - 1) : ps[j].status # "active"
    ELSE 0

\* checkAndRedeem: the loop moves on from `from`, up to the next await; the
\* bag of the polls this leaves in flight (none when the loop has ended)
pollFrom(ps, from) ==
    LET i == nextActive(ps, from)
    IN  IF i = 0 THEN EmptyBag ELSE SetToBag({[pc |-> "resolving", index |-> i]})

\* checkAndRedeem: "if (polyResolved && kalshiResolved)"
bothResolved(polyResolved, kalshiResolved) == polyResolved /\ kalshiResolved

\* Mutant: a call is issued for every leg field.
redeemedLegs_EveryLeg(position) == {"polyUp", "polyDown", "kalshiUp", "kalshiDown"}

\* redeemPosition: the legs for which a redemption call is issued
redeemedLegs(position) ==
    { leg \in {"polyUp", "polyDown", "kalshiUp", "kalshiDown"} : position[leg] > 0 }

\* redeemPosition: the call issued for a leg, given how the venue takes it
redeemTokens(leg, outcome) ==
    IF leg \in {"polyUp", "polyDown"}
    THEN polymarketRedeemTokens(polymarketBuild, outcome)
    ELSE kalshiRedeemTokens(outcome)

\* redeemPosition: what Promise.allSettled can resolve to for a position
redemptionResults(position) ==
    { [leg \in redeemedLegs(position) |-> redeemTokens(leg, outcomes[leg])] :
        outcomes \in [redeemedLegs(position) -> RedemptionOutcomes] }

\* Mutant: one redeemed leg is enough.
allSucceeded_Some(results) == \E leg \in DOMAIN results : results[leg] = "true"

\* redeemPosition: results.every(r => r.status === 'fulfilled' && r.value === true)
allSucceeded(results) == \A leg \in DOMAIN results : results[leg] = "true"

\* Mutant: a failed redemption writes the status back to 'active'.
statusAfterRedemption_ResetsOnFailure(status, results) ==
    IF allSucceeded(results) THEN "redeemed" ELSE "active"

\* redeemPosition: "if (allSucceeded) position.status = 'redeemed'"
statusAfterRedemption(status, results) ==
    IF allSucceeded(results) THEN "redeemed" ELSE status

\* startAutoRedeem: the interval timer fires and checkAndRedeem starts
PollStarts ==
    /\ BagCardinality(polls) < MaxPolls
    /\ polls' = polls (+) pollFrom(positions, 1)
    /\ UNCHANGED <<detectorVars, env, positions, scanVars, redemption, recordVars, venueVars>>

\* checkAndRedeem: Promise.all over the isMarketResolved calls of poll p has
\* resolved to [polyResolved, kalshiResolved]
ResolveCompletes(p, polyResolved, kalshiResolved) ==
    polls' = (polls (-) SetToBag({p})) (+)
                 IF bothResolved(polyResolved, kalshiResolved)
                 THEN SetToBag({[pc |-> "redeeming", index |-> p.index,
                                 polyResolved |-> polyResolved,
                                 kalshiResolved |-> kalshiResolved]})
                 ELSE pollFrom(positions, p.index + 1)

\* what an isMarketResolved call can resolve to
resolvedValues == { isMarketResolved(answer) : answer \in ResolutionAnswers }

\* both isMarketResolved calls of poll p have resolved
PollResolved(p) ==
    /\ p.pc = "resolving"
    /\ \E polyResolved \in resolvedValues, kalshiResolved \in resolvedValues :
          ResolveCompletes(p, polyResolved, kalshiResolved)
    /\ UNCHANGED <<detectorVars, env, positions, scanVars, redemption, recordVars,
                   venueVars>>

\* the same step, with the venues' answers kept in `resolution`
PollResolvedLogged(p) ==
    /\ p.pc = "resolving"
    /\ \E polyAnswer \in ResolutionAnswers, kalshiAnswer \in ResolutionAnswers :
          /\ ResolveCompletes(p, isMarketResolved(polyAnswer),
                              isMarketResolved(kalshiAnswer))
          /\ resolution' = [index |-> p.index, polymarket |-> polyAnswer,
                            kalshi |-> kalshiAnswer]
    /\ UNCHANGED <<detectorVars, env, positions, scanVars, redemption, venueVars,
                   listings, matchResult, submitted, orders>>

\* redeemPosition: Promise.allSettled over the redemption calls of poll p has
\* resolved to `results`; the status is set and checkAndRedeem's loop goes on
RedeemCompletes(p, results) ==
    LET ps == [positions EXCEPT
                  ![p.index].status = statusAfterRedemption(@, results)]
    IN  /\ positions' = ps
        /\ polls' = (polls (-) SetToBag({p})) (+) pollFrom(ps, p.index + 1)

PollRedeemed(p) ==
    /\ p.pc = "redeeming"
    /\ \E results \in redemptionResults(positions[p.index]) : RedeemCompletes(p, results)
    /\ UNCHANGED <<detectorVars, env, scanVars, redemption, recordVars, venueVars>>

\* the same step, with the calls and their results kept in `redemption`
PollRedeemedLogged(p) ==
    /\ p.pc = "redeeming"
    /\ \E results \in redemptionResults(positions[p.index]) :
          /\ RedeemCompletes(p, results)
          /\ redemption' = [index |-> p.index, results |-> results]
    /\ UNCHANGED <<detectorVars, env, scanVars, venueVars, recordVars>>

(***************************************************************************)
(* The bot.  It is taken with the PolymarketClient that the imports of     *)
(* index.ts resolve to (src/clients); every answer the placeholder client  *)
(* of src/src/clients gives is one this client can give as well.           *)
(***************************************************************************)
Init ==
    /\ env \in EnvLevels
    /\ PROFIT_THRESHOLD = env.TAKE_PROFIT
    /\ marketData = Null
    /\ stage = "input"
    /\ detected = Null
    /\ current = Null
    /\ validated = FALSE
    /\ positions = << >>
    /\ scanPc = "sleep"
    /\ matched = << >>
    /\ opportunity = Null
    /\ tradeAmount = 0
    /\ polyResult = "none"
    /\ kalshiResult = "none"
    /\ executionResult = Null
    /\ polls = EmptyBag
    /\ redemption = Null
    /\ listings = Null
    /\ matchResult = Null
    /\ submitted = Null
    /\ resolution = Null
    /\ orders = Null
    /\ liveQuotes = << >>
    /\ venuesSettled = FALSE
    /\ polymarketBuild = "src/clients"

Next ==
    \/ ScanTick
    \/ MatchReturns
    \/ PolySettles
    \/ KalshiSettles
    \/ ExecuteReturns
    \/ ScanResumes
    \/ PollStarts
    \/ \E p \in BagToSet(polls) : PollResolved(p)
    \/ \E p \in BagToSet(polls) : PollRedeemed(p)

Spec == Init /\ [][Next]_vars

(***************************************************************************)
(* The bot while the venues' quotes move.                                  *)
(***************************************************************************)
StaleNext ==
    \/ Next
    \/ VenueQuotesMove

StaleSpec == Init /\ [][StaleNext]_vars

(***************************************************************************)
(* The Trader on its own: a configuration is drawn, then executeArbitrage  *)
(* is called for a tradeable market, with the amount calculateTradeAmount  *)
(* gives or with any other amount, and scanAndTrade takes its result.      *)
(***************************************************************************)
TraderEnvLevels ==
    [ TAKE_PROFIT : {DefaultTakeProfit},
      MIN_TRADE_AMOUNT : {DefaultMinTradeAmount, 200},
      MAX_TRADE_AMOUNT : {100, DefaultMaxTradeAmount},
      TRADE_PERCENTAGE : {0, DefaultTradePercentage, 50, 200},
      AVAILABLE_BALANCE : {0, 50, DefaultAvailableBalance, 5000} ]

AmountLevels == {0, 5, 10, 100, 150, 1000, 2000}

TradeableMarkets ==
    { market \in MarketDataLevels :
        /\ ~market.isResolved
        /\ detectOpportunity(market, DefaultTakeProfit) # Null }

TraderInit ==
    /\ env \in TraderEnvLevels
    /\ PROFIT_THRESHOLD = env.TAKE_PROFIT
    /\ marketData = Null
    /\ stage = "input"
    /\ detected = Null
    /\ current = Null
    /\ validated = FALSE
    /\ positions = << >>
    /\ scanPc = "sleep"
    /\ matched = << >>
    /\ opportunity = Null
    /\ tradeAmount = 0
    /\ polyResult = "none"
    /\ kalshiResult = "none"
    /\ executionResult = Null
    /\ polls = EmptyBag
    /\ redemption = Null
    /\ listings = Null
    /\ matchResult = Null
    /\ submitted = Null
    /\ resolution = Null
    /\ orders = Null
    /\ liveQuotes = << >>
    /\ venuesSettled = FALSE
    /\ polymarketBuild = "src/clients"

\* scanAndTrade: "const tradeAmount = this.trader.calculateTradeAmount(...)",
\* then executeArbitrage(opportunity, tradeAmount)
TraderExecutesSized ==
    /\ scanPc = "sleep"
    /\ positions = << >>
    /\ \E market \in TradeableMarkets :
          LET opp == detectOpportunity(market, PROFIT_THRESHOLD)
          IN  /\ matched' = <<market>>
              /\ liveQuotes' = <<fetchedQuotes(market)>>
              /\ ExecuteStarts(opp, calculateTradeAmount(opp, env.AVAILABLE_BALANCE))
    /\ executionResult' = Null
    /\ UNCHANGED <<detectorVars, env, positions, polls, redemption, recordVars, venuesSettled,
                   polymarketBuild>>

\* executeArbitrage called with any amount
TraderExecutesAmount ==
    /\ scanPc = "sleep"
    /\ positions = << >>
    /\ \E market \in TradeableMarkets : \E amount \in AmountLevels :
          /\ matched' = <<market>>
          /\ liveQuotes' = <<fetchedQuotes(market)>>
          /\ ExecuteStarts(detectOpportunity(market, PROFIT_THRESHOLD), amount)
    /\ executionResult' = Null
    /\ UNCHANGED <<detectorVars, env, positions, polls, redemption, recordVars, venuesSettled,
                   polymarketBuild>>

TraderNext ==
    \/ TraderExecutesSized
    \/ TraderExecutesAmount
    \/ PolySettles
    \/ KalshiSettles
    \/ ExecuteReturns
    \/ ScanResumes

TraderSpec == TraderInit /\ [][TraderNext]_vars

(***************************************************************************)
(* The Redeemer on its own: a ledger the bot can have built is drawn, then *)
(* the polls run over it.  A market's position is added by scanAndTrade    *)
(* only when the first position of that market is not active.              *)
(***************************************************************************)
LedgerPositions ==
    { [ newPosition(detectOpportunity(market, DefaultTakeProfit),
                    calculateTradeAmount(Null, DefaultAvailableBalance))
        EXCEPT !.status = st ] :
      market \in { mk \in TradeableMarkets :
                     (mk.marketId = "m1") = (mk.polymarket.upPrice < mk.polymarket.downPrice) },
      st \in {"active", "redeemed"} }

Ledgers ==
    UNION { { ps \in [1..n -> LedgerPositions] :
                \A i \in 1..n : \A j \in 1..n :
                    (i < j /\ ps[i].marketId = ps[j].marketId)
                        => findPosition(ps, ps[i].marketId).status = "redeemed" } :
            n \in 0..MaxPositions }

RedeemerInit ==
    /\ env = DefaultEnv
    /\ PROFIT_THRESHOLD = env.TAKE_PROFIT
    /\ marketData = Null
    /\ stage = "input"
    /\ detected = Null
    /\ current = Null
    /\ validated = FALSE
    /\ positions \in Ledgers
    /\ scanPc = "sleep"
    /\ matched = << >>
    /\ opportunity = Null
    /\ tradeAmount = 0
    /\ polyResult = "none"
    /\ kalshiResult = "none"
    /\ executionResult = Null
    /\ polls = EmptyBag
    /\ redemption = Null
    /\ listings = Null
    /\ matchResult = Null
    /\ submitted = Null
    /\ resolution = Null
    /\ orders = Null
    /\ liveQuotes = << >>
    /\ venuesSettled = FALSE
    /\ polymarketBuild \in {"src/clients", "src/src/clients"}

RedeemerNext ==
    \/ PollStarts
    \/ \E p \in BagToSet(polls) : PollResolved(p)
    \/ \E p \in BagToSet(polls) : PollRedeemedLogged(p)

RedeemerSpec == RedeemerInit /\ [][RedeemerNext]_vars

(***************************************************************************)
(* The Redeemer with the venues' resolution answers observed.              *)
(***************************************************************************)
ResolutionNext ==
    \/ PollStarts
    \/ \E p \in BagToSet(polls) : PollResolvedLogged(p)
    \/ \E p \in BagToSet(polls) : PollRedeemed(p)

ResolutionSpec == RedeemerInit /\ [][ResolutionNext]_vars

(***************************************************************************)
(* The Redeemer under fair scheduling: the interval timer keeps firing and *)
(* every venue call of a poll in flight returns.  The venues may settle.   *)
(***************************************************************************)
PollStates ==
    { [pc |-> "resolving", index |-> i] : i \in 1..MaxPositions } \cup
    { [pc |-> "redeeming", index |-> i, polyResolved |-> TRUE, kalshiResolved |-> TRUE] :
        i \in 1..MaxPositions }

RedeemerFairNext ==
    \/ PollStarts
    \/ \E p \in BagToSet(polls) : PollResolved(p)
    \/ \E p \in BagToSet(polls) : PollRedeemed(p)
    \/ VenuesSettle

RedeemerFairness ==
    /\ WF_vars(PollStarts)
    /\ \A p \in PollStates : WF_vars(p \in BagToSet(polls) /\ PollResolved(p))
    /\ \A p \in PollStates : WF_vars(p \in BagToSet(polls) /\ PollRedeemed(p))

RedeemerFairSpec == RedeemerInit /\ [][RedeemerFairNext]_vars /\ RedeemerFairness

(***************************************************************************)
(* MarketMatcher.  A listing holds a venue's markets in listing order, as   *)
(* getActiveBTCMarkets reads them.                                         *)
(* End times are in milliseconds, as Date.getTime() gives them; an end     *)
(* time that is missing parses to NaN and is the empty optional.           *)
(***************************************************************************)
PolyEndTimes == { {60000}, {960000}, {} }
KalshiExpirations == {0, 1, 960000}
SeriesTickers == { {"KXBTC-15M"}, {"KXETH-15M"}, {} }
KalshiTickers == {"k1", "k2"}

PolyMarkets ==
    { [id |-> m, endDate |-> t, resolved |-> r] :
        m \in MarketIds, t \in PolyEndTimes, r \in BOOLEAN }

KalshiMarkets ==
    { [ticker |-> k, expiration_time |-> t, series_ticker |-> s, status |-> "open"] :
        k \in KalshiTickers, t \in KalshiExpirations, s \in SeriesTickers }

PolyListings ==
    UNION { { ms \in [1..n -> PolyMarkets] :
                \A i \in 1..n : \A j \in 1..n : i < j => ms[i].id # ms[j].id } :
            n \in 0..MaxMatched }

KalshiListings ==
    UNION { { ms \in [1..n -> KalshiMarkets] :
                \A i \in 1..n : \A j \in 1..n : i < j => ms[i].ticker # ms[j].ticker } :
            n \in 0..MaxMatched }

\* what the venues give in one run: each venue holds a listing and its
\* listing call resolves to it or fails (on any page, the markets read so far
\* being dropped with the error); getMarketPrices fails for the pairs of the
\* Polymarket markets in priceFails.  The markets listed here are unresolved.
ListingLevels ==
    { [ polymarket |-> [failed |-> pf, markets |-> pms],
        kalshi |-> [failed |-> kf, markets |-> kms],
        priceFails |-> f ] :
        pf \in BOOLEAN,
        pms \in { ms \in PolyListings : \A i \in 1..Len(ms) : ~ms[i].resolved },
        kf \in BOOLEAN, kms \in KalshiListings,
        f \in SUBSET MarketIds }

\* PolymarketClient.getMarketPrices and KalshiClient.getMarketPrices: the
\* quotes each venue holds for a market
polymarketPrices(id) ==
    IF id = "m1" THEN [upPrice |-> 40, downPrice |-> 63, bettedPrice |-> {38}]
                 ELSE [upPrice |-> 63, downPrice |-> 40, bettedPrice |-> {42}]

kalshiPrices(ticker) ==
    IF ticker = "k1" THEN [upPrice |-> 45, downPrice |-> 48, bettedPrice |-> {42}]
                     ELSE [upPrice |-> 48, downPrice |-> 45, bettedPrice |-> {38}]

\* "kalshiMarket.series_ticker?.includes('BTC-15M')"
includesBTC15M(series_ticker) ==
    Defined(series_ticker) /\ ValueOf(series_ticker) \in {"KXBTC-15M"}

\* "timeDiff < 60000", timeDiff being NaN when the end time did not parse
withinOneMinute(polyEndTime, kalshiEndTime) ==
    /\ Defined(polyEndTime)
    /\ Abs(ValueOf(polyEndTime) - kalshiEndTime) < 60000

\* findMatchingKalshiMarket: the test of the loop
isMatch(polyMarket, kalshiMarket) ==
    /\ withinOneMinute(polyMarket.endDate, kalshiMarket.expiration_time)
    /\ includesBTC15M(kalshiMarket.series_ticker)

\* Mutant: the loop keeps the last market that passes the test.
findMatchingKalshiMarket_Last(polyMarket, kalshiMarkets) ==
    IF \E i \in 1..Len(kalshiMarkets) : isMatch(polyMarket, kalshiMarkets[i])
    THEN kalshiMarkets[CHOOSE i \in 1..Len(kalshiMarkets) :
                          /\ isMatch(polyMarket, kalshiMarkets[i])
                          /\ \A j \in (i + 1)..Len(kalshiMarkets) :
                                ~isMatch(polyMarket, kalshiMarkets[j])]
    ELSE Null

\* MarketMatcher.findMatchingKalshiMarket: the first market of the listing
\* that passes the test, or null
findMatchingKalshiMarket(polyMarket, kalshiMarkets) ==
    IF \E i \in 1..Len(kalshiMarkets) : isMatch(polyMarket, kalshiMarkets[i])
    THEN kalshiMarkets[CHOOSE i \in 1..Len(kalshiMarkets) :
                          /\ isMatch(polyMarket, kalshiMarkets[i])
                          /\ \A j \in 1..(i - 1) :
                                ~isMatch(polyMarket, kalshiMarkets[j])]
    ELSE Null

\* matchMarkets: the MarketData pushed for a pair
matchedMarket(polyMarket, kalshiMarket) ==
    [ marketId |-> polyMarket.id,
      isResolved |-> polyMarket.resolved \/ kalshiMarket.status = "resolved",
      polymarket |-> polymarketPrices(polyMarket.id),
      kalshi |-> kalshiPrices(kalshiMarket.ticker) ]

\* matchMarkets: the loop over the Polymarket listing.  The price calls are
\* awaited inside the try block of matchMarkets: when one rejects, the catch
\* block returns [].
RECURSIVE matchLoop(_, _, _, _)
matchLoop(polyMarkets, kalshiMarkets, priceFails, matchedMarkets) ==
    IF polyMarkets = << >> THEN matchedMarkets
    ELSE LET polyMarket == Head(polyMarkets)
             kalshiMarket == findMatchingKalshiMarket(polyMarket, kalshiMarkets)
         IN  IF kalshiMarket = Null
             THEN matchLoop(Tail(polyMarkets), kalshiMarkets, priceFails, matchedMarkets)
             ELSE IF polyMarket.id \in priceFails
             THEN << >>
             ELSE matchLoop(Tail(polyMarkets), kalshiMarkets, priceFails,
                            Append(matchedMarkets,
                                   matchedMarket(polyMarket, kalshiMarket)))

\* Mutant: a failed Kalshi listing is taken as an empty page.
aListingFailed_PolymarketOnly(venues) == venues.polymarket.failed

\* matchMarkets: Promise.all over the two getActiveBTCMarkets calls rejects
\* when either call rejects (both clients rethrow)
aListingFailed(venues) == venues.polymarket.failed \/ venues.kalshi.failed

\* MarketMatcher.matchMarkets
matchMarkets(venues) ==
    IF aListingFailed(venues) THEN << >>
    ELSE matchLoop(venues.polymarket.markets, venues.kalshi.markets,
                   venues.priceFails, << >>)

\* matchMarkets resolves for the venues of `listings`; the loop of
\* scanAndTrade runs up to the first call of executeArbitrage
MatcherReturns ==
    /\ scanPc = "matching"
    /\ LET ms == matchMarkets(listings)
       IN  /\ matchResult' = [markets |-> ms]
           /\ ScanContinues(ms, positions, [i \in 1..Len(ms) |-> fetchedQuotes(ms[i])])
    /\ executionResult' = Null
    /\ UNCHANGED <<detectorVars, env, positions, polls, redemption, listings, submitted,
                   resolution, orders, venuesSettled, polymarketBuild>>

\* the ledger a run starts with: empty, or one active position
MatcherLedgers ==
    { ps \in Ledgers : Len(ps) <= 1 /\ \A i \in 1..Len(ps) : ps[i].status = "active" }

MatcherInit ==
    /\ env = DefaultEnv
    /\ PROFIT_THRESHOLD = env.TAKE_PROFIT
    /\ marketData = Null
    /\ stage = "input"
    /\ detected = Null
    /\ current = Null
    /\ validated = FALSE
    /\ positions \in MatcherLedgers
    /\ scanPc = "sleep"
    /\ matched = << >>
    /\ opportunity = Null
    /\ tradeAmount = 0
    /\ polyResult = "none"
    /\ kalshiResult = "none"
    /\ executionResult = Null
    /\ polls = EmptyBag
    /\ redemption = Null
    /\ listings \in ListingLevels
    /\ matchResult = Null
    /\ submitted = Null
    /\ resolution = Null
    /\ orders = Null
    /\ liveQuotes = << >>
    /\ venuesSettled = FALSE
    /\ polymarketBuild = "src/clients"

MatcherNext ==
    \/ ScanTick
    \/ MatcherReturns
    \/ PolySettles
    \/ KalshiSettles
    \/ ExecuteReturns
    \/ ScanResumes

MatcherSpec == MatcherInit /\ [][MatcherNext]_vars

(***************************************************************************)
(* The scan loop under fair scheduling: the bot is running, the loop's     *)
(* continuations run and every venue call returns.  An error may be thrown *)
(* inside scanAndTrade once matchMarkets or executeArbitrage has resolved. *)
(***************************************************************************)
\* Mutant: the error leaves scanAndTrade and scanLoop, and the loop ends.
afterThrow_Unhandled == "stopped"

\* scanAndTrade: "catch (error) { console.error(...) }": the call returns and
\* scanLoop sleeps until the next tick
afterThrow == "sleep"

\* an error is thrown in scanAndTrade, after matchMarkets resolved or after
\* the position executeArbitrage resolved to was pushed
TickThrows ==
    /\ scanPc \in {"matching", "returned"}
    /\ positions' = IF scanPc = "returned"
                    THEN pushPosition(positions, executionResult)
                    ELSE positions
    /\ scanPc' = afterThrow
    /\ matched' = << >>
    /\ liveQuotes' = << >>
    /\ opportunity' = Null
    /\ tradeAmount' = 0
    /\ polyResult' = "none"
    /\ kalshiResult' = "none"
    /\ executionResult' = Null
    /\ UNCHANGED <<detectorVars, env, polls, redemption, recordVars, venuesSettled,
                   polymarketBuild>>

ScanFairNext ==
    \/ ScanTick
    \/ MatchReturns
    \/ PolySettles
    \/ KalshiSettles
    \/ ExecuteReturns
    \/ ScanResumes
    \/ TickThrows

ScanFairness ==
    /\ WF_vars(ScanTick)
    /\ WF_vars(MatchReturns)
    /\ WF_vars(PolySettles)
    /\ WF_vars(KalshiSettles)
    /\ WF_vars(ExecuteReturns)
    /\ WF_vars(ScanResumes)

ScanFairSpec == Init /\ [][ScanFairNext]_vars /\ ScanFairness

(***************************************************************************)
(* The venue adapters' buyToken, exercised on their own: a call is drawn   *)
(* with a leg price of the 0..100 scale as maxPrice, then one of the       *)
(* adapters builds the order it puts on the wire.                          *)
(***************************************************************************)
LegPrices == 0..100

\* KalshiClient.buyToken: "const price = Math.max(1, Math.min(99, maxPrice))",
\* sent as yes_price or no_price, in cents
kalshiLimitPrice(maxPrice) == Max(1, Min(99, maxPrice))

\* PolymarketClient.buyToken: "price: maxPrice / 100", kept as the fraction
\* num / den
polymarketLimitPrice(maxPrice) == [num |-> maxPrice, den |-> 100]

AdapterInit ==
    /\ env = DefaultEnv
    /\ PROFIT_THRESHOLD = env.TAKE_PROFIT
    /\ marketData = Null
    /\ stage = "input"
    /\ detected = Null
    /\ current = Null
    /\ validated = FALSE
    /\ positions = << >>
    /\ scanPc = "sleep"
    /\ matched = << >>
    /\ opportunity = Null
    /\ tradeAmount = 0
    /\ polyResult = "none"
    /\ kalshiResult = "none"
    /\ executionResult = Null
    /\ polls = EmptyBag
    /\ redemption = Null
    /\ listings = Null
    /\ matchResult = Null
    /\ submitted \in { [venue |-> "none", maxPrice |-> p] : p \in LegPrices }
    /\ resolution = Null
    /\ orders = Null
    /\ liveQuotes = << >>
    /\ venuesSettled = FALSE
    /\ polymarketBuild \in {"src/clients", "src/src/clients"}

KalshiBuyToken ==
    /\ submitted.venue = "none"
    /\ submitted' = [venue |-> "kalshi", maxPrice |-> submitted.maxPrice,
                     price |-> kalshiLimitPrice(submitted.maxPrice)]
    /\ UNCHANGED <<detectorVars, env, positions, scanVars, polls, redemption, venueVars,
                   listings, matchResult, resolution, orders>>

PolymarketBuyToken ==
    /\ submitted.venue = "none"
    /\ submitted' = [venue |-> "polymarket", maxPrice |-> submitted.maxPrice,
                     price |-> polymarketLimitPrice(submitted.maxPrice)]
    /\ UNCHANGED <<detectorVars, env, positions, scanVars, polls, redemption, venueVars,
                   listings, matchResult, resolution, orders>>

AdapterNext == KalshiBuyToken \/ PolymarketBuyToken

AdapterSpec == AdapterInit /\ [][AdapterNext]_vars

(***************************************************************************)
(* The Redeemer over the positions executeArbitrage creates: a             *)
(* configuration is drawn, the ledger holds what executeArbitrage resolves *)
(* to for the amount calculateTradeAmount gives under it, both orders      *)
(* having been fulfilled; then the polls run.  With MIN_TRADE_AMOUNT=0 and *)
(* AVAILABLE_BALANCE=0 the amount is 0 and passes the band check.          *)
(***************************************************************************)
ZeroAmountEnv ==
    [DefaultEnv EXCEPT !.MIN_TRADE_AMOUNT = 0, !.AVAILABLE_BALANCE = 0]

SizedEnvLevels == {DefaultEnv, ZeroAmountEnv}

\* what executeArbitrage resolves to for a tradeable market, both buyToken
\* calls fulfilled
createdPosition(market) ==
    LET opp == detectOpportunity(market, env.TAKE_PROFIT)
        amount == calculateTradeAmount(opp, env.AVAILABLE_BALANCE)
    IN  IF amountAllowed(amount) /\ submitsOrders(opp)
        THEN executeArbitrage(opp, amount, "fulfilled", "fulfilled")
        ELSE Null

CreatedLedgers ==
    UNION { { ps \in [1..n -> { createdPosition(market) : market \in TradeableMarkets }
                                   \ {Null}] :
                \A i \in 1..n : \A j \in 1..n :
                    i < j => ps[i].marketId # ps[j].marketId } :
            n \in 0..MaxPositions }

SizedInit ==
    /\ env \in SizedEnvLevels
    /\ PROFIT_THRESHOLD = env.TAKE_PROFIT
    /\ marketData = Null
    /\ stage = "input"
    /\ detected = Null
    /\ current = Null
    /\ validated = FALSE
    /\ positions \in CreatedLedgers
    /\ scanPc = "sleep"
    /\ matched = << >>
    /\ opportunity = Null
    /\ tradeAmount = 0
    /\ polyResult = "none"
    /\ kalshiResult = "none"
    /\ executionResult = Null
    /\ polls = EmptyBag
    /\ redemption = Null
    /\ listings = Null
    /\ matchResult = Null
    /\ submitted = Null
    /\ resolution = Null
    /\ orders = Null
    /\ liveQuotes = << >>
    /\ venuesSettled = FALSE
    /\ polymarketBuild \in {"src/clients", "src/src/clients"}

SizedSpec == SizedInit /\ [][RedeemerNext]_vars

(***************************************************************************)
(* The scan loop with the buyToken calls observed: the venues hold         *)
(* listings that match, matchMarkets is computed from them, and `orders`   *)
(* keeps what each venue was asked and what it answered.                   *)
(***************************************************************************)
\* what a venue can do with an order: the call fails, or the order is
\* accepted and reported with a status
PolymarketOrderAnswers == {"error", "FILLED", "PARTIALLY_FILLED", "LIVE"}
KalshiOrderAnswers == {"error", "filled", "resting"}

\* buyToken: the promise rejects on an error ("throw error") and is fulfilled
\* with a Trade otherwise
orderPromise(answer) == IF answer = "error" THEN "rejected" ELSE "fulfilled"

\* PolymarketClient.buyToken: "status: response.status === 'FILLED' ||
\* response.status === 'PARTIALLY_FILLED' ? 'filled' : 'pending'"
polymarketTrade(answer) ==
    IF answer = "error" THEN "rejected"
    ELSE IF answer \in {"FILLED", "PARTIALLY_FILLED"} THEN "filled" ELSE "pending"

\* KalshiClient.buyToken: "status: order?.status === 'filled' ? 'filled' :
\* 'pending'"
kalshiTrade(answer) ==
    IF answer = "error" THEN "rejected"
    ELSE IF answer = "filled" THEN "filled" ELSE "pending"

\* executeArbitrage: the market each buyToken call is addressed to,
\* "this.polymarket.buyToken(opportunity.marketId, ...)" and
\* "this.kalshi.buyToken(opportunity.marketId, ...)"
polymarketOrderMarket(opp) == opp.marketId
kalshiOrderMarket(opp) == opp.marketId

\* `orders` once the loop has moved on: the calls of the execution that
\* starts, if one starts
OrdersPlaced ==
    orders' = IF scanPc' = "orders"
              THEN [ marketId |-> opportunity'.marketId,
                     polymarket |-> [marketId |-> polymarketOrderMarket(opportunity'),
                                     trade |-> "awaiting"],
                     kalshi |-> [marketId |-> kalshiOrderMarket(opportunity'),
                                 trade |-> "awaiting"] ]
              ELSE orders

MatcherReturnsLogged ==
    /\ scanPc = "matching"
    /\ LET ms == matchMarkets(listings)
       IN  /\ matchResult' = [markets |-> ms]
           /\ ScanContinues(ms, positions, [i \in 1..Len(ms) |-> fetchedQuotes(ms[i])])
    /\ executionResult' = Null
    /\ OrdersPlaced
    /\ UNCHANGED <<detectorVars, env, positions, polls, redemption, listings, submitted,
                   resolution, venuesSettled, polymarketBuild>>

PolySettlesLogged ==
    /\ scanPc = "orders"
    /\ polyResult = "pending"
    /\ \E answer \in PolymarketOrderAnswers :
          /\ polyResult' = orderPromise(answer)
          /\ orders' = [orders EXCEPT !.polymarket.trade = polymarketTrade(answer)]
    /\ UNCHANGED <<detectorVars, env, positions, polls, scanPc, matched, opportunity,
                   tradeAmount, kalshiResult, executionResult, redemption, venueVars,
                   listings, matchResult, submitted, resolution>>

KalshiSettlesLogged ==
    /\ scanPc = "orders"
    /\ kalshiResult = "pending"
    /\ \E answer \in KalshiOrderAnswers :
          /\ kalshiResult' = orderPromise(answer)
          /\ orders' = [orders EXCEPT !.kalshi.trade = kalshiTrade(answer)]
    /\ UNCHANGED <<detectorVars, env, positions, polls, scanPc, matched, opportunity,
                   tradeAmount, polyResult, executionResult, redemption, venueVars,
                   listings, matchResult, submitted, resolution>>

ScanResumesLogged ==
    /\ scanPc = "returned"
    /\ LET ps == pushPosition(positions, executionResult)
       IN  /\ positions' = ps
           /\ ScanContinues(Tail(matched), ps, Tail(liveQuotes))
    /\ executionResult' = Null
    /\ OrdersPlaced
    /\ UNCHANGED <<detectorVars, env, polls, redemption, listings, matchResult, submitted,
                   resolution, venuesSettled, polymarketBuild>>

\* the venues list BTC markets with end times that parse, some of them
\* resolved, and every listing and price call succeeds
OrderListings ==
    { [ polymarket |-> [failed |-> FALSE, markets |-> pms],
        kalshi |-> [failed |-> FALSE, markets |-> kms],
        priceFails |-> {} ] :
        pms \in { ms \in PolyListings :
                    \A i \in 1..Len(ms) : ms[i].endDate \in {{60000}, {960000}} },
        kms \in { ms \in KalshiListings :
                    \A i \in 1..Len(ms) :
                        /\ ms[i].expiration_time \in {1, 960000}
                        /\ ms[i].series_ticker = {"KXBTC-15M"} } }

OrdersInit ==
    /\ env = DefaultEnv
    /\ PROFIT_THRESHOLD = env.TAKE_PROFIT
    /\ marketData = Null
    /\ stage = "input"
    /\ detected = Null
    /\ current = Null
    /\ validated = FALSE
    /\ positions = << >>
    /\ scanPc = "sleep"
    /\ matched = << >>
    /\ opportunity = Null
    /\ tradeAmount = 0
    /\ polyResult = "none"
    /\ kalshiResult = "none"
    /\ executionResult = Null
    /\ polls = EmptyBag
    /\ redemption = Null
    /\ listings \in OrderListings
    /\ matchResult = Null
    /\ submitted = Null
    /\ resolution = Null
    /\ orders = Null
    /\ liveQuotes = << >>
    /\ venuesSettled = FALSE
    /\ polymarketBuild = "src/clients"

OrdersNext ==
    \/ ScanTick
    \/ MatcherReturnsLogged
    \/ PolySettlesLogged
    \/ KalshiSettlesLogged
    \/ ExecuteReturns
    \/ ScanResumesLogged

OrdersSpec == OrdersInit /\ [][OrdersNext]_vars

(***************************************************************************)
(* Properties of the bot (checked under Spec).                             *)
(***************************************************************************)
activePositions(m) ==
    { i \in 1..Len(positions) :
        positions[i].marketId = m /\ positions[i].status = "active" }

\* C1: in every reachable state the ledger holds at most one position with
\* status 'active' for any given marketId.
C1_AtMostOneActivePerMarket ==
    \A m \in MarketIds : Cardinality(activePositions(m)) <= 1

aLegRejected == polyResult = "rejected" \/ kalshiResult = "rejected"
bothLegsFulfilled == polyResult = "fulfilled" /\ kalshiResult = "fulfilled"

\* C2: executeArbitrage returns null whenever at least one of the two buyToken
\* calls rejected and a Position only when both fulfilled; the scan tick
\* appends to the ledger only the Position returned, and nothing when null was
\* returned.
C2_NoPositionUnlessBothLegsFulfilled ==
    [][ /\ scanPc' = "returned" =>
              /\ aLegRejected' => executionResult' = Null
              /\ executionResult' # Null => bothLegsFulfilled'
        /\ (scanPc = "returned" /\ scanPc' # "returned" /\ aLegRejected) =>
              positions' = positions
        /\ Len(positions') # Len(positions) =>
              /\ scanPc = "returned"
              /\ bothLegsFulfilled
              /\ positions' = Append(positions, executionResult) ]_vars

C2_Witness ==
    /\ scanPc = "returned"
    /\ polyResult = "fulfilled"
    /\ kalshiResult = "rejected"
    /\ executionResult = Null
    /\ Len(positions) > 0

(***************************************************************************)
(* Properties of the detector (checked under DetectorSpec).                *)
(***************************************************************************)
costUpDown == marketData.polymarket.upPrice + marketData.kalshi.downPrice
costDownUp == marketData.polymarket.downPrice + marketData.kalshi.upPrice
eligibleUpDown == costUpDown < PROFIT_THRESHOLD
eligibleDownUp == costDownUp < PROFIT_THRESHOLD
polyBettedIn == marketData.polymarket.bettedPrice
kalshiBettedIn == marketData.kalshi.bettedPrice
bothBettedPresent == polyBettedIn # {} /\ kalshiBettedIn # {}
polyBettedBelowKalshi ==
    \E pb \in polyBettedIn : \E kb \in kalshiBettedIn : pb < kb
polyBettedAboveKalshi ==
    \E pb \in polyBettedIn : \E kb \in kalshiBettedIn : pb > kb
detectorRan == stage \in {"detected", "validated"}
returnedOpportunity == detectorRan /\ detected # Null
returnedAction(a) == returnedOpportunity /\ detected.action = a

\* C3: when neither combination costs less than the threshold,
\* detectOpportunity returns null, whatever the betted prices are.
C3_NoEligibleNoOpportunity ==
    (detectorRan /\ costUpDown >= PROFIT_THRESHOLD /\ costDownUp >= PROFIT_THRESHOLD)
        => detected = Null

C3_Witness ==
    /\ stage = "detected"
    /\ costUpDown = PROFIT_THRESHOLD
    /\ costDownUp > PROFIT_THRESHOLD
    /\ polyBettedBelowKalshi
    /\ detected = Null

\* C4: when both combinations are eligible and both betted prices are present
\* and different, the action follows the betted prices alone: poly up + kalshi
\* down if kalshi's betted price is the higher one, poly down + kalshi up if
\* polymarket's is, whichever combination is cheaper.
C4_BothEligibleBettedDecides ==
    (detectorRan /\ eligibleUpDown /\ eligibleDownUp) =>
        /\ polyBettedBelowKalshi => returnedAction("buy_poly_up_kalshi_down")
        /\ polyBettedAboveKalshi => returnedAction("buy_poly_down_kalshi_up")

C4_Witness ==
    /\ stage = "detected"
    /\ eligibleUpDown /\ eligibleDownUp
    /\ polyBettedAboveKalshi
    /\ costUpDown < costDownUp
    /\ returnedAction("buy_poly_down_kalshi_up")

\* C5: when both combinations are eligible and the betted prices are equal or
\* one of them is absent, an Opportunity is returned and its action is never
\* the one of the strictly more expensive combination.
C5_BothEligibleCheaperFallback ==
    (/\ detectorRan /\ eligibleUpDown /\ eligibleDownUp
     /\ ~polyBettedBelowKalshi /\ ~polyBettedAboveKalshi) =>
        /\ returnedOpportunity
        /\ costUpDown < costDownUp => detected.action = "buy_poly_up_kalshi_down"
        /\ costDownUp < costUpDown => detected.action = "buy_poly_down_kalshi_up"

C5_Witness ==
    /\ stage = "detected"
    /\ eligibleUpDown /\ eligibleDownUp
    /\ polyBettedIn = {} /\ kalshiBettedIn # {}
    /\ costDownUp < costUpDown
    /\ returnedAction("buy_poly_down_kalshi_up")

\* C6: when exactly one combination is eligible and both betted prices are
\* present, an Opportunity is returned if and only if the betted prices
\* disagree strictly in the eligible direction, and then with the action of the
\* eligible combination; equal betted prices give null.
C6_SingleEligibleNeedsDisagreement ==
    (detectorRan /\ bothBettedPresent) =>
        /\ (eligibleUpDown /\ ~eligibleDownUp) =>
              IF polyBettedBelowKalshi
              THEN returnedAction("buy_poly_up_kalshi_down")
              ELSE detected = Null
        /\ (eligibleDownUp /\ ~eligibleUpDown) =>
              IF polyBettedAboveKalshi
              THEN returnedAction("buy_poly_down_kalshi_up")
              ELSE detected = Null

C6_Witness ==
    /\ stage = "detected"
    /\ eligibleUpDown /\ ~eligibleDownUp
    /\ bothBettedPresent
    /\ polyBettedIn = kalshiBettedIn
    /\ detected = Null

\* C7: when exactly one combination is eligible and a betted price is absent,
\* detectOpportunity returns null: there is no fallback to the costs.
C7_SingleEligibleMissingBettedSkips ==
    (/\ detectorRan /\ ~bothBettedPresent
     /\ eligibleUpDown # eligibleDownUp) => detected = Null

C7_Witness ==
    /\ stage = "detected"
    /\ eligibleDownUp /\ ~eligibleUpDown
    /\ polyBettedIn # {} /\ kalshiBettedIn = {}
    /\ detected = Null

\* C8: every Opportunity returned has an action other than skip and a totalCost
\* strictly below the threshold.
C8_OpportunityBelowThreshold ==
    returnedOpportunity =>
        /\ detected.action \in {"buy_poly_up_kalshi_down", "buy_poly_down_kalshi_up"}
        /\ detected.totalCost < PROFIT_THRESHOLD

C8_Witness ==
    /\ stage = "detected"
    /\ ~eligibleUpDown /\ eligibleDownUp
    /\ returnedAction("buy_poly_down_kalshi_up")
    /\ detected.totalCost = PROFIT_THRESHOLD - 2

\* C9: the totalCost of a returned Opportunity is the cost of the combination
\* that its action buys.
C9_TotalCostIsCostOfAction ==
    returnedOpportunity =>
        detected.totalCost =
            IF detected.action = "buy_poly_up_kalshi_down"
            THEN detected.polyUpPrice + detected.kalshiDownPrice
            ELSE detected.polyDownPrice + detected.kalshiUpPrice

\* C10: validateOpportunity returns true if and only if each of the four leg
\* prices of the fresh quotes is less than 2 away from the price stored in
\* the Opportunity.
legMoves ==
    << current.polymarket.upPrice - detected.polyUpPrice,
       current.polymarket.downPrice - detected.polyDownPrice,
       current.kalshi.upPrice - detected.kalshiUpPrice,
       current.kalshi.downPrice - detected.kalshiDownPrice >>

C11_OrdersOnlyAfterValidation ==
    [][ (scanPc # "orders" /\ scanPc' = "orders") =>
            validateOpportunity(opportunity', liveQuotes'[1].polymarket,
                                liveQuotes'[1].kalshi) ]_vars

(***************************************************************************)
(* Properties of the Trader (checked under TraderSpec).                    *)
(***************************************************************************)
outOfBand(amount) == amount < env.MIN_TRADE_AMOUNT \/ amount > env.MAX_TRADE_AMOUNT

\* C12: when executeArbitrage is called with an amount below minTradeAmount
\* or above maxTradeAmount it resolves to null (it does not throw), no order
\* is placed on either venue, and the ledger is the same before the call,
\* after it and after scanAndTrade has taken the result.
C12_OutOfBandAmountRejected ==
    [][ /\ (scanPc = "sleep" /\ scanPc' # "sleep" /\ outOfBand(tradeAmount')) =>
              /\ scanPc' = "returned"
              /\ executionResult' = Null
              /\ polyResult' = "none"
              /\ kalshiResult' = "none"
              /\ positions' = positions
        /\ (scanPc = "returned" /\ outOfBand(tradeAmount)) =>
              positions' = positions ]_vars

C12_Witness ==
    /\ scanPc = "returned"
    /\ tradeAmount > env.MAX_TRADE_AMOUNT
    /\ executionResult = Null
    /\ polyResult = "none"
    /\ kalshiResult = "none"

proportionalAmount == (env.AVAILABLE_BALANCE * env.TRADE_PERCENTAGE) \div 100

clampedAmount ==
    IF proportionalAmount < env.MIN_TRADE_AMOUNT THEN env.MIN_TRADE_AMOUNT
    ELSE IF proportionalAmount > env.MAX_TRADE_AMOUNT THEN env.MAX_TRADE_AMOUNT
    ELSE proportionalAmount

\* C13: when minTradeAmount <= maxTradeAmount, calculateTradeAmount returns
\* availableBalance * tradePercentage clamped to [minTradeAmount,
\* maxTradeAmount], the result lies in that band, and a call of
\* executeArbitrage with that amount places its orders: the band check does
\* not reject it.
C13_SizedAmountInBand ==
    env.MIN_TRADE_AMOUNT <= env.MAX_TRADE_AMOUNT =>
        LET amount == calculateTradeAmount(opportunity, env.AVAILABLE_BALANCE)
        IN  /\ amount = clampedAmount
            /\ env.MIN_TRADE_AMOUNT <= amount
            /\ amount <= env.MAX_TRADE_AMOUNT
            /\ (opportunity # Null /\ tradeAmount = amount) =>
                   (polyResult # "none" /\ kalshiResult # "none")

C13_Witness ==
    /\ env.MIN_TRADE_AMOUNT <= env.MAX_TRADE_AMOUNT
    /\ proportionalAmount < env.MIN_TRADE_AMOUNT
    /\ scanPc = "orders"
    /\ tradeAmount = env.MIN_TRADE_AMOUNT
    /\ polyResult = "pending"
    /\ kalshiResult = "pending"

(***************************************************************************)
(* Further properties of the bot (checked under Spec).                     *)
(***************************************************************************)
settled(result) == result \in {"fulfilled", "rejected"}

\* C14: for an Opportunity with a non-skip action and an amount inside the
\* band, both buyToken calls are issued, one per venue; the settling of one
\* leg leaves the other as it is; while one leg is pending it can still
\* settle, whatever the other leg did; and executeArbitrage returns only when
\* both legs have settled.
C14_BothOrdersSubmittedAndObserved ==
    [][ /\ (scanPc' \in {"orders", "returned"} /\ ~outOfBand(tradeAmount')
              /\ opportunity'.action # "skip") =>
              /\ polyResult' # "none"
              /\ kalshiResult' # "none"
              /\ scanPc' = "returned" => (settled(polyResult') /\ settled(kalshiResult'))
        /\ (scanPc = "orders" /\ polyResult' # polyResult) => kalshiResult' = kalshiResult
        /\ (scanPc = "orders" /\ kalshiResult' # kalshiResult) => polyResult' = polyResult
        /\ (scanPc = "orders" /\ polyResult = "pending") => ENABLED PolySettles
        /\ (scanPc = "orders" /\ kalshiResult = "pending") => ENABLED KalshiSettles ]_vars

C14_Witness ==
    /\ scanPc = "returned"
    /\ polyResult = "rejected"
    /\ kalshiResult = "fulfilled"
    /\ executionResult = Null

upDownLegs(position, amount) ==
    /\ position.polyUp = amount
    /\ position.kalshiDown = amount
    /\ position.polyDown = 0
    /\ position.kalshiUp = 0

downUpLegs(position, amount) ==
    /\ position.polyDown = amount
    /\ position.kalshiUp = amount
    /\ position.polyUp = 0
    /\ position.kalshiDown = 0

samePosition(p, q) == [p EXCEPT !.status = "any"] = [q EXCEPT !.status = "any"]

\* C16: in every step the ledger keeps every Position it had, in the same
\* place and the same but for its status; when it grows it grows by one
\* Position, at the end, in a scan tick that resumes after executeArbitrage,
\* and the Position is the non-null result of executeArbitrage.
C16_LedgerAppendOnly ==
    [][ /\ Len(positions') >= Len(positions)
        /\ \A i \in 1..Len(positions) : samePosition(positions'[i], positions[i])
        /\ Len(positions') > Len(positions) =>
              /\ Len(positions') = Len(positions) + 1
              /\ scanPc = "returned"
              /\ executionResult # Null
              /\ positions'[Len(positions')] = executionResult ]_vars

C16_Witness ==
    /\ Len(positions) >= 2
    /\ positions[1].status = "redeemed"
    /\ positions[2].marketId # positions[1].marketId

\* C17: a Position enters the ledger with status 'active'; the status of a
\* Position changes only from 'active' to 'redeemed', and only in a step in
\* which a redeemPosition call for it completes; a 'redeemed' Position stays
\* 'redeemed', also when another redemption call for it completes.
C17_StatusOnlyActiveToRedeemed ==
    [][ /\ \A i \in 1..Len(positions) :
              (i <= Len(positions') /\ positions'[i].status # positions[i].status) =>
                  /\ positions[i].status = "active"
                  /\ positions'[i].status = "redeemed"
                  /\ \E p \in BagToSet(polls) :
                        /\ p.pc = "redeeming"
                        /\ p.index = i
                        /\ CopiesIn(p, polls') < CopiesIn(p, polls)
        /\ \A i \in (Len(positions) + 1)..Len(positions') :
              positions'[i].status = "active" ]_vars

C17_Witness ==
    \E p \in BagToSet(polls) :
        /\ p.pc = "redeeming"
        /\ positions[p.index].status = "redeemed"

(***************************************************************************)
(* Properties of the Redeemer (checked under RedeemerSpec and, for         *)
(* liveness, RedeemerFairSpec).                                            *)
(***************************************************************************)
\* a redeemPosition call completes in this step; `redemption'` holds its calls
completes(p) ==
    /\ p.pc = "redeeming"
    /\ CopiesIn(p, polls') < CopiesIn(p, polls)

everyCallTrue(log) == \A leg \in DOMAIN log.results : log.results[leg] = "true"
someCallTrue(log) == \E leg \in DOMAIN log.results : log.results[leg] = "true"

\* C18: the status of a Position becomes 'redeemed' only in a step that
\* completes a redeemPosition call for it, made by a poll to which both
\* venues had reported the market resolved, and in which every redemption
\* call returned true; when a call of a completed redeemPosition did not
\* return true, no status changes.
C18_RedeemedOnlyWhenAllCallsTrue ==
    [][ /\ \A i \in 1..Len(positions) :
              (positions[i].status # "redeemed" /\ positions'[i].status = "redeemed") =>
                  /\ \E p \in BagToSet(polls) :
                        /\ completes(p)
                        /\ p.index = i
                        /\ p.polyResolved
                        /\ p.kalshiResolved
                  /\ redemption'.index = i
                  /\ everyCallTrue(redemption')
        /\ ((\E p \in BagToSet(polls) : completes(p)) /\ ~everyCallTrue(redemption')) =>
              positions' = positions ]_vars

C18_Witness ==
    /\ redemption # Null
    /\ everyCallTrue(redemption)
    /\ positions[redemption.index].status = "redeemed"
    /\ \E i \in 1..Len(positions) : positions[i].status = "active"

nonZeroLegs(position) ==
    { leg \in {"polyUp", "polyDown", "kalshiUp", "kalshiDown"} : position[leg] # 0 }

noneActive(ps, from, to) == \A j \in from..to : ps[j].status # "active"

\* C19: when a redeemPosition call completes with some but not all of its
\* calls returning true, the Position keeps its status 'active'; every
\* redeemPosition call issues a redemption for every non-zero leg of its
\* Position, whatever was redeemed before; and no poll steps over an
\* 'active' Position: a poll that starts goes to the first 'active' Position,
\* a poll that moves on goes to the next 'active' Position, and a poll ends
\* only when no 'active' Position follows.
C19_PartialRedemptionRetried ==
    [][ /\ \A p \in BagToSet(polls) :
              completes(p) =>
                  /\ redemption'.index = p.index
                  /\ DOMAIN redemption'.results = nonZeroLegs(positions[p.index])
                  /\ (someCallTrue(redemption') /\ ~everyCallTrue(redemption')) =>
                         positions'[p.index].status = positions[p.index].status
        /\ \A q \in BagToSet(polls') :
              (q.pc = "resolving" /\ CopiesIn(q, polls') > CopiesIn(q, polls)) =>
                  /\ positions'[q.index].status = "active"
                  /\ IF BagCardinality(polls') > BagCardinality(polls)
                     THEN noneActive(positions', 1, q.index - 1)
                     ELSE \E p \in BagToSet(polls) :
                             /\ CopiesIn(p, polls') < CopiesIn(p, polls)
                             /\ p.index < q.index
                             /\ noneActive(positions', p.index + 1, q.index - 1)
        /\ BagCardinality(polls') < BagCardinality(polls) =>
              \A p \in BagToSet(polls) :
                  CopiesIn(p, polls') < CopiesIn(p, polls) =>
                      noneActive(positions', p.index + 1, Len(positions')) ]_vars

C19_Witness ==
    /\ redemption # Null
    /\ someCallTrue(redemption)
    /\ ~everyCallTrue(redemption)
    /\ positions[redemption.index].status = "active"
    /\ \E p \in BagToSet(polls) :
          /\ p.pc = "redeeming"
          /\ p.index = redemption.index

statusAt(i) == IF i <= Len(positions) THEN positions[i].status ELSE "none"

\* C20: under fair scheduling of the polls, once both venues report every
\* market resolved and carry out every redemption asked of them, every
\* Position that is 'active' eventually becomes 'redeemed'.
C20_ActiveEventuallyRedeemed ==
    \A i \in 1..MaxPositions :
        (venuesSettled /\ statusAt(i) = "active") ~> (statusAt(i) = "redeemed")

(***************************************************************************)
(* Claims about failing venue queries and the matcher (ResolutionSpec,     *)
(* MatcherSpec).                                                           *)
(***************************************************************************)
\* the pair of isMarketResolved calls of poll p completes in this step;
\* `resolution'` holds the venues' answers
resolves(p) ==
    /\ p.pc = "resolving"
    /\ CopiesIn(p, polls') < CopiesIn(p, polls)

aQueryFailed(log) == log.polymarket = "error" \/ log.kalshi = "error"

redeemingCalls(bag, i) ==
    BagCardinality([q \in {r \in BagToSet(bag) : r.pc = "redeeming" /\ r.index = i}
                       |-> CopiesIn(q, bag)])

\* C21: when the pair of resolution queries of a poll completes and a query
\* of either venue failed, no redemption call is issued for the Position, no
\* status changes, and the poll goes on to the next 'active' Position of the
\* ledger, ending only when there is none.
C21_FailedResolutionQueryIsNotResolved ==
    [][ \A p \in BagToSet(polls) :
            (resolves(p) /\ aQueryFailed(resolution')) =>
                /\ resolution'.index = p.index
                /\ redeemingCalls(polls', p.index) = redeemingCalls(polls, p.index)
                /\ positions' = positions
                /\ IF \E j \in (p.index + 1)..Len(positions) : positions[j].status = "active"
                   THEN \E j \in (p.index + 1)..Len(positions) :
                           /\ positions[j].status = "active"
                           /\ noneActive(positions, p.index + 1, j - 1)
                           /\ polls' = (polls (-) SetToBag({p})) (+)
                                           SetToBag({[pc |-> "resolving", index |-> j]})
                   ELSE polls' = polls (-) SetToBag({p}) ]_vars

C21_Witness ==
    /\ resolution # Null
    /\ resolution.polymarket = "error"
    /\ resolution.kalshi = "resolved"
    /\ positions[resolution.index].status = "active"
    /\ \E p \in BagToSet(polls) :
          /\ p.pc = "resolving"
          /\ p.index > resolution.index
    /\ \A p \in BagToSet(polls) : p.pc # "redeeming"

pairsOf(result, id) == { i \in 1..Len(result.markets) : result.markets[i].marketId = id }

\* the Kalshi markets of the listing that qualify for a Polymarket market:
\* the expirations differ by less than 60000 ms and the series ticker holds
\* the BTC-15M marker
candidates(polyMarket, kalshiMarkets) ==
    { j \in 1..Len(kalshiMarkets) :
        /\ polyMarket.endDate # {}
        /\ \E t \in polyMarket.endDate :
              /\ t - kalshiMarkets[j].expiration_time < 60000
              /\ kalshiMarkets[j].expiration_time - t < 60000
        /\ kalshiMarkets[j].series_ticker = {"KXBTC-15M"} }

listingsFetched == ~listings.polymarket.failed /\ ~listings.kalshi.failed

matchCompletes == scanPc = "matching" /\ scanPc' # "matching"

C24_PriceFailureSkipsOnlyThatPair ==
    (matchResult # Null /\ listingsFetched) =>
        \A p \in 1..Len(listings.polymarket.markets) :
            LET polyMarket == listings.polymarket.markets[p]
            IN  (/\ candidates(polyMarket, listings.kalshi.markets) # {}
                 /\ polyMarket.id \notin listings.priceFails) =>
                    pairsOf(matchResult, polyMarket.id) # {}

(***************************************************************************)
(* Claims about scheduling (Spec, ScanFairSpec, AdapterSpec).              *)
(***************************************************************************)
\* scanAndTrade is called in this step
tickStarts == scanPc # "matching" /\ scanPc' = "matching"

\* C25: scanAndTrade is called only when the loop is between ticks: the
\* previous call has returned, neither buyToken call of it is outstanding and
\* nothing of its matched markets is left to handle.
C25_ScanTicksNeverOverlap ==
    [][ tickStarts =>
            /\ scanPc = "sleep"
            /\ polyResult # "pending"
            /\ kalshiResult # "pending"
            /\ matched = << >>
            /\ executionResult = Null ]_vars

C25_Witness ==
    /\ scanPc = "matching"
    /\ Len(positions) = 2
    /\ BagCardinality(polls) >= 1

\* C26: at most one call of checkAndRedeem is in flight at any time.
C26_RedemptionPollsNeverOverlap == BagCardinality(polls) <= 1

\* executeArbitrage resolved to null: the amount was refused or a leg failed
tickFailed == scanPc = "returned" /\ executionResult = Null

\* C27: under fair scheduling of the scan loop and of the venue calls, a
\* scan tick is started again and again, whatever the ticks before it did:
\* a tick whose execution failed, or that ended on a thrown error, is
\* followed by another call of scanAndTrade.
C27_SchedulerSurvivesFailingTicks ==
    /\ []<>(scanPc = "matching")
    /\ tickFailed ~> (scanPc = "matching")

C27_Witness ==
    /\ scanPc = "returned"
    /\ polyResult = "rejected"
    /\ kalshiResult = "rejected"
    /\ executionResult = Null
    /\ Len(positions) = 1

\* C28: the limit price of an order a venue adapter has built lies in the
\* venue's valid range: 1..99 cents for Kalshi, strictly between 0 and 1 for
\* Polymarket.
C28_LimitPriceInVenueRange ==
    /\ submitted.venue = "kalshi" =>
          (1 <= submitted.price /\ submitted.price <= 99)
    /\ submitted.venue = "polymarket" =>
          /\ 0 < submitted.price.num
          /\ submitted.price.num < submitted.price.den

(***************************************************************************)
(* Claims about the profit of an Opportunity and about the ledger's        *)
(* duplicate guard (DetectorSpec, Spec).                                   *)
(***************************************************************************)
\* totalCost and profitPotential of the Opportunities detectOpportunity
\* returns over the detector's inputs
returnedProfits ==
    { [totalCost |-> opp.totalCost, profitNum |-> opp.profitNum,
       profitDen |-> opp.profitDen] :
        opp \in { detectOpportunity(md, threshold) :
                    md \in [marketId : {"m1"}, polymarket : MarketPrice,
                            kalshi : MarketPrice],
                    threshold \in ThresholdLevels } \ {Null} }

\* the fraction n1 / d1 is greater than n2 / d2, for positive d1 and d2
greaterFraction(n1, d1, n2, d2) == n1 * d2 > n2 * d1

\* C29: of the Opportunity just returned and any Opportunity the detector
\* returns, both with a positive totalCost, the one with the lower totalCost
\* has the strictly greater profitPotential, and (100 - c1) * c2 >
\* (100 - c2) * c1 for their costs c1 < c2.
C29_ProfitDecreasesWithCost ==
    (stage = "detected" /\ detected # Null) =>
        \A other \in returnedProfits :
            /\ (0 < detected.totalCost /\ detected.totalCost < other.totalCost) =>
                  /\ greaterFraction(detected.profitNum, detected.profitDen,
                                     other.profitNum, other.profitDen)
                  /\ (100 - detected.totalCost) * other.totalCost
                         > (100 - other.totalCost) * detected.totalCost
            /\ (0 < other.totalCost /\ other.totalCost < detected.totalCost) =>
                  /\ greaterFraction(other.profitNum, other.profitDen,
                                     detected.profitNum, detected.profitDen)
                  /\ (100 - other.totalCost) * detected.totalCost
                         > (100 - detected.totalCost) * other.totalCost

C29_Witness ==
    /\ stage = "detected"
    /\ detected # Null
    /\ \E other \in returnedProfits : detected.totalCost < other.totalCost
    /\ \E other \in returnedProfits : other.totalCost < detected.totalCost

\* a scan tick is between its find-by-market check and the push that follows
\* executeArbitrage
inExecution == scanPc \in {"orders", "returned"}

\* the tick takes the result of executeArbitrage in this step
tickAppends == scanPc = "returned" /\ scanPc' # "returned"

marketPositions(ps, m) == { i \in 1..Len(ps) : ps[i].marketId = m }

firstActive(ps, m) ==
    /\ marketPositions(ps, m) # {}
    /\ \E i \in marketPositions(ps, m) :
          /\ \A j \in marketPositions(ps, m) : i <= j
          /\ ps[i].status = "active"

\* C30: from the find-by-market check of a scan tick for a market to the push
\* of the Position it creates, whatever the redemption polls do in between:
\* the check keeps holding (the first Position of the market is not
\* 'active'), no step other than the tick's own push adds a Position, and
\* that push adds at most the one Position executeArbitrage resolved to.
C30_GuardAndAppendAtomic ==
    [][ inExecution =>
            LET m == opportunity.marketId
            IN  /\ ~firstActive(positions, m)
                /\ IF tickAppends
                   THEN /\ executionResult = Null => positions' = positions
                        /\ executionResult # Null =>
                              /\ Len(positions') = Len(positions) + 1
                              /\ marketPositions(positions', m) =
                                     marketPositions(positions, m) \cup {Len(positions')}
                   ELSE /\ Len(positions') = Len(positions)
                        /\ \A i \in 1..Len(positions) :
                              positions'[i].marketId = positions[i].marketId ]_vars

C30_Witness ==
    /\ scanPc = "returned"
    /\ executionResult # Null
    /\ \E i \in 1..Len(positions) :
          /\ positions[i].marketId = opportunity.marketId
          /\ positions[i].status = "redeemed"
    /\ \E p \in BagToSet(polls) : p.pc = "redeeming"

(***************************************************************************)
(* Claims about what the bot asks of the venues (SizedSpec, RedeemerSpec,  *)
(* OrdersSpec, MatcherSpec, DetectorSpec).                                 *)
(***************************************************************************)
heldLegs(position) ==
    { leg \in {"polyUp", "polyDown", "kalshiUp", "kalshiDown"} : position[leg] > 0 }

polymarketLegs == {"polyUp", "polyDown"}
kalshiLegs == {"kalshiUp", "kalshiDown"}

onePerVenue(legs) ==
    /\ Cardinality(legs) = 2
    /\ Cardinality(legs \cap polymarketLegs) = 1
    /\ Cardinality(legs \cap kalshiLegs) = 1

\* C31, as stated: a redeemPosition call that completes has issued one
\* redemption call for each leg whose amount is greater than 0 and none for
\* the others, and for a Position created by executeArbitrage these are
\* exactly two calls, one per venue.
C31_TwoCallsForEveryCreatedPosition ==
    [][ \A p \in BagToSet(polls) :
            completes(p) =>
                /\ DOMAIN redemption'.results = heldLegs(positions[p.index])
                /\ onePerVenue(DOMAIN redemption'.results) ]_vars

\* C31, amended: a redeemPosition call that completes has issued one
\* redemption call for each leg whose amount is greater than 0 and none for
\* the others; for a Position created by executeArbitrage with an amount
\* greater than 0 these are exactly two calls, one per venue, and for one
\* created with the amount 0 there is no call.
C31_CallsForHeldLegs ==
    [][ \A p \in BagToSet(polls) :
            completes(p) =>
                /\ DOMAIN redemption'.results = heldLegs(positions[p.index])
                /\ IF positions[p.index].totalCost > 0
                   THEN onePerVenue(DOMAIN redemption'.results)
                   ELSE DOMAIN redemption'.results = {} ]_vars

C31_Witness ==
    /\ redemption # Null
    /\ onePerVenue(DOMAIN redemption.results)
    /\ positions[redemption.index].totalCost > 0
    /\ Len(positions) = 2

\* C32: a poll issues the redemption calls of a Position (it enters
\* redeemPosition) only while the status of the Position is 'active'.
C32_RedemptionOnlyForActive ==
    [][ \A i \in 1..Len(positions) :
            redeemingCalls(polls', i) > redeemingCalls(polls, i) =>
                positions[i].status = "active" ]_vars

\* an order the venue took: the promise of the leg was fulfilled with a Trade
accepted(leg) == leg.trade \in {"filled", "pending"}

\* the execution logged in `orders` ended with one leg's order taken by its
\* venue and the other leg's call failed
oneLegAccepted(log) ==
    /\ log # Null
    /\ \/ accepted(log.polymarket) /\ log.kalshi.trade = "rejected"
       \/ accepted(log.kalshi) /\ log.polymarket.trade = "rejected"

\* the Executor is called in this step
executionStarts == scanPc # "orders" /\ scanPc' = "orders"

\* C33: once an execution for a market has failed with exactly one leg's
\* order accepted by its venue, the Executor is not invoked again for that
\* market: no execution starts for the market of a logged execution that
\* ended with one leg accepted.
C33_NoRetryAfterSingleLeg ==
    [][ executionStarts /\ oneLegAccepted(orders) =>
            opportunity'.marketId # orders.marketId ]_vars

\* the ticker of the Kalshi market that matchMarkets paired with the
\* Polymarket market `id` of the listings
matchedTicker(id) ==
    LET pms == listings.polymarket.markets
        i == CHOOSE k \in 1..Len(pms) :
                /\ pms[k].id = id
                /\ \A j \in 1..(k - 1) : pms[j].id # id
    IN  findMatchingKalshiMarket(pms[i], listings.kalshi.markets).ticker

\* C34: every call to a venue for a matched pair is addressed with that
\* venue's own identifier of the pair: the Polymarket order carries the
\* Polymarket market id and the Kalshi order carries the ticker of the Kalshi
\* market that was matched to it.
C34_CallsUseVenueIdentifier ==
    orders # Null =>
        /\ orders.polymarket.marketId = orders.marketId
        /\ orders.kalshi.marketId = matchedTicker(orders.marketId)

\* C35: a Position is recorded in the ledger only if both venues reported
\* their leg's order as filled: whenever the ledger grows, both trades of the
\* execution that produced the Position have status 'filled'.
C35_PositionOnlyWhenBothFilled ==
    [][ Len(positions') > Len(positions) =>
            /\ orders.polymarket.trade = "filled"
            /\ orders.kalshi.trade = "filled" ]_vars

\* the MarketData of this tick's matched result that the loop is at
marketInHand == matchResult.markets[Len(matchResult.markets) - Len(matched) + 1]

\* C36: in a scan tick no Opportunity is evaluated and no order is placed for
\* a matched market whose isResolved flag is true in that tick's matched
\* result: while an execution is under way, the Opportunity and the orders
\* are those of a market of the result whose flag is false.
C36_ResolvedMarketsSkipped ==
    scanPc \in {"orders", "returned"} =>
        /\ matched # << >>
        /\ Len(matched) <= Len(matchResult.markets)
        /\ marketInHand = Head(matched)
        /\ opportunity.marketId = marketInHand.marketId
        /\ orders.marketId = marketInHand.marketId
        /\ ~marketInHand.isResolved

C36_Witness ==
    /\ scanPc = "orders"
    /\ Len(matchResult.markets) = 2
    /\ matchResult.markets[1].isResolved
    /\ detectOpportunity(matchResult.markets[1], PROFIT_THRESHOLD) # Null
    /\ orders.marketId = matchResult.markets[2].marketId
    /\ orders.kalshi.trade = "awaiting"

\* C38: within one scan tick the matching is injective on the Kalshi side: no
\* Kalshi market appears in more than one matched pair of the tick's result.
C38_MatchingInjectiveOnKalshi ==
    matchResult # Null =>
        \A i \in 1..Len(matchResult.markets) :
            \A j \in 1..Len(matchResult.markets) :
                i < j => matchedTicker(matchResult.markets[i].marketId)
                            # matchedTicker(matchResult.markets[j].marketId)

(***************************************************************************)
(* Further claims about the detector (DetectorSpec, QuotedSpec).           *)
(***************************************************************************)
\* C37: for every Opportunity returned by detectOpportunity, the combination
\* that its action buys is itself eligible, and opportunityType is 'both'
\* exactly when both combinations are eligible and otherwise names the same
\* combination as the action.
C37_ActionEligibleAndTypeAgrees ==
    returnedOpportunity =>
        /\ detected.action = "buy_poly_up_kalshi_down" => eligibleUpDown
        /\ detected.action = "buy_poly_down_kalshi_up" => eligibleDownUp
        /\ (detected.opportunityType = "both") = (eligibleUpDown /\ eligibleDownUp)
        /\ detected.opportunityType # "both" =>
              detected.action =
                  IF detected.opportunityType = "poly_up_kalshi_down"
                  THEN "buy_poly_up_kalshi_down"
                  ELSE "buy_poly_down_kalshi_up"

C37_Witness ==
    /\ stage = "detected"
    /\ eligibleUpDown /\ eligibleDownUp
    /\ costUpDown < costDownUp
    /\ returnedAction("buy_poly_down_kalshi_up")
    /\ detected.opportunityType = "both"

====
